-------------------------- MODULE AuditChainProof --------------------------
(***************************************************************************)
(* The audit trail of a case is one intact chain and only grows at its     *)
(* end, for any number of cases, transactions, events and clock readings.  *)
(***************************************************************************)
EXTENDS AuditChain, TLAPS

\* A row not yet committed belongs to a live transaction that still holds the
\* advisory lock of the row's case, and is younger than the committed rows.
RowsAreGuarded ==
    \A t \in Txs : \A r \in inserted[t] :
        /\ status[t] \in {"open", "error"}
        /\ lock[r.case] = t
        /\ \A q \in case_events[r.case] : q.at < r.at

\* What a transaction sees of a case is an intact chain.
SeenIntact == \A t \in Txs, c \in Cases : VerifyChain(c, Visible(t, c))

\* The inductive invariant.
Inv == TypeOK /\ RowsAreGuarded /\ SeenIntact /\ ChainIntact

-----------------------------------------------------------------------------
\* The empty trail is a chain.
LEMMA EmptyChain == \A c : VerifyChain(c, {})
  BY DEF VerifyChain

\* A first row that starts from the genesis hash makes a chain.
LEMMA FirstRow ==
  ASSUME NEW c, NEW p, NEW at \in Nat
  PROVE  VerifyChain(c, {NewRow(c, p, GenesisHash(c), at)})
<1> DEFINE r == NewRow(c, p, GenesisHash(c), at)
<1>1. r.case = c /\ r.prev = GenesisHash(c) /\ r.hash = ComputeHash(r.prev, r.payload, r.at) /\ r.at \in Nat
  BY DEF NewRow
<1>2. Earlier({r}, r) = {}
  BY <1>1 DEF Earlier
<1> HIDE DEF r
<1>3. VerifyChain(c, {r})
  BY <1>1, <1>2 DEF VerifyChain
<1> QED
  BY <1>3 DEF r

\* A row that is later than the latest row of a chain and carries that row's
\* hash extends the chain.
LEMMA NextRow ==
  ASSUME NEW c, NEW R, \A x \in R : x.at \in Nat,
         VerifyChain(c, R),
         NEW q, IsLatest(R, q),
         NEW p, NEW at \in Nat, q.at < at
  PROVE  VerifyChain(c, R \cup {NewRow(c, p, q.hash, at)})
<1> DEFINE r == NewRow(c, p, q.hash, at)
           S == R \cup {r}
<1>1. r.case = c /\ r.prev = q.hash /\ r.hash = ComputeHash(r.prev, r.payload, r.at) /\ r.at = at
  BY DEF NewRow
<1> HIDE DEF r
<1>2. \A x \in R : x.at < r.at
  BY <1>1 DEF IsLatest
<1>3. Earlier(S, r) = R
  BY <1>1, <1>2 DEF Earlier
<1>4. \A x \in R : Earlier(S, x) = Earlier(R, x)
  BY <1>1, <1>2 DEF Earlier
<1>5. \A x \in S : x.case = c /\ x.hash = ComputeHash(x.prev, x.payload, x.at)
  BY <1>1 DEF VerifyChain
<1>6. \A x, y \in S : x.at = y.at => x = y
  BY <1>1, <1>2 DEF VerifyChain
<1>7. ASSUME NEW x \in S
      PROVE  \/ Earlier(S, x) = {} /\ x.prev = GenesisHash(c)
             \/ \E y \in S : IsLatest(Earlier(S, x), y) /\ x.prev = y.hash
  <2>1. CASE x = r
    BY <2>1, <1>1, <1>3 DEF IsLatest
  <2>2. CASE x \in R
    BY <2>2, <1>4 DEF VerifyChain
  <2> QED
    BY <2>1, <2>2
<1>8. VerifyChain(c, S)
  BY <1>5, <1>6, <1>7 DEF VerifyChain
<1> QED
  BY <1>8 DEF r

\* The hash of a row is a hash.
LEMMA HashType ==
  ASSUME NEW c \in Cases, NEW p \in Payloads, NEW prev \in Hash, NEW at \in Nat
  PROVE  NewRow(c, p, prev, at) \in Row
<1>1. ComputeHash(prev, p, at) \in Hash
  BY DEF ComputeHash, Hash
<1> QED
  BY <1>1 DEF NewRow, Row

\* Outside RecordCaseEventTx and the commits, transactions only lose rows and
\* give back locks: what they still see stays intact.
LEMMA RowsOnlyDropped ==
  ASSUME Inv, TypeOK', UNCHANGED case_events,
         \A t \in Txs : inserted'[t] = inserted[t] \/ inserted'[t] = {},
         \A t \in Txs : inserted'[t] # {} =>
            /\ status'[t] \in {"open", "error"}
            /\ \A c \in Cases : lock[c] = t => lock'[c] = t
  PROVE  Inv'
<1>1. RowsAreGuarded'
  <2> SUFFICES ASSUME NEW t \in Txs, NEW r \in inserted'[t]
               PROVE  /\ status'[t] \in {"open", "error"}
                      /\ lock'[r.case] = t
                      /\ \A q \in case_events[r.case] : q.at < r.at
    BY DEF RowsAreGuarded
  <2>1. inserted'[t] # {} /\ r \in inserted[t]
    OBVIOUS
  <2>2. r.case \in Cases
    BY <2>1 DEF Inv, TypeOK, Row
  <2> QED
    BY <2>1, <2>2 DEF Inv, RowsAreGuarded
<1>2. ChainIntact'
  BY DEF Inv, ChainIntact
<1>3. SeenIntact'
  <2> SUFFICES ASSUME NEW t \in Txs, NEW c \in Cases
               PROVE  VerifyChain(c, Visible(t, c)')
    BY DEF SeenIntact
  <2>1. CASE inserted'[t] = inserted[t]
    BY <2>1 DEF Inv, SeenIntact, Visible
  <2>2. CASE inserted'[t] = {}
    <3>1. Visible(t, c)' = case_events[c]
      BY <2>2 DEF Visible
    <3> QED
      BY <3>1 DEF Inv, ChainIntact
  <2> QED
    BY <2>1, <2>2
<1> QED
  BY <1>1, <1>2, <1>3 DEF Inv

\* Publishing the rows of a transaction keeps every view intact: another
\* transaction sees new rows only in cases in which it has none of its own.
LEMMA RowsPublished ==
  ASSUME Inv, TypeOK', NEW t \in Txs,
         case_events' = Publish(t),
         inserted' = [inserted EXCEPT ![t] = {}],
         lock' = Release(t),
         \A u \in Txs \ {t} : status'[u] = status[u]
  PROVE  Inv'
<1>1. ASSUME NEW u \in Txs \ {t}, NEW r \in inserted[u]
      PROVE  r.case \in Cases /\ lock[r.case] = u /\ Visible(t, r.case) = case_events[r.case]
  <2>1. r.case \in Cases
    BY DEF Inv, TypeOK, Row
  <2>2. lock[r.case] = u
    BY DEF Inv, RowsAreGuarded
  <2>3. \A x \in inserted[t] : x.case # r.case
    BY <2>2 DEF Inv, RowsAreGuarded
  <2> QED
    BY <2>1, <2>2, <2>3 DEF Visible
<1>2. RowsAreGuarded'
  <2> SUFFICES ASSUME NEW u \in Txs, NEW r \in inserted'[u]
               PROVE  /\ status'[u] \in {"open", "error"}
                      /\ lock'[r.case] = u
                      /\ \A q \in case_events'[r.case] : q.at < r.at
    BY DEF RowsAreGuarded
  <2>1. u # t /\ r \in inserted[u]
    BY DEF Inv, TypeOK
  <2>2. lock'[r.case] = u /\ case_events'[r.case] = case_events[r.case]
    BY <1>1, <2>1 DEF Release, Publish
  <2> QED
    BY <2>1, <2>2 DEF Inv, RowsAreGuarded
<1>3. ChainIntact'
  BY DEF Inv, SeenIntact, ChainIntact, Publish
<1>4. SeenIntact'
  <2> SUFFICES ASSUME NEW u \in Txs, NEW c \in Cases
               PROVE  VerifyChain(c, Visible(u, c)')
    BY DEF SeenIntact
  <2> DEFINE own == {r \in inserted'[u] : r.case = c}
  <2>1. CASE own = {}
    <3>1. Visible(u, c)' = case_events'[c]
      BY <2>1 DEF Visible
    <3> QED
      BY <3>1, <1>3 DEF ChainIntact
  <2>2. CASE own # {}
    <3>1. u # t /\ inserted'[u] = inserted[u]
      BY <2>2 DEF Inv, TypeOK
    <3>2. case_events'[c] = case_events[c]
      BY <2>2, <3>1, <1>1 DEF Publish
    <3>3. Visible(u, c)' = Visible(u, c)
      BY <3>1, <3>2 DEF Visible
    <3> QED
      BY <3>3 DEF Inv, SeenIntact
  <2> QED
    BY <2>1, <2>2
<1> QED
  BY <1>2, <1>3, <1>4 DEF Inv

\* Recording an event extends what its own transaction sees and nothing else.
LEMMA RowRecorded ==
  ASSUME Inv, TypeOK', NEW t \in Txs, NEW c \in Cases, NEW p \in Payloads, NEW now \in Times,
         RecordCaseEventTx(t, c, p, now)
  PROVE  Inv'
<1> DEFINE V == Visible(t, c)
<1> USE AuditAssumption
<1> DEFINE Extends(r) == /\ InsertRow(t, c, r)
                         /\ r.case = c /\ r.at \in Nat
                         /\ \A x \in V : x.at < r.at
                         /\ VerifyChain(c, V \cup {r})
<1>1. PICK r : Extends(r)
  <2>0. VerifyChain(c, V) /\ \A x \in V : x.at \in Nat
    BY DEF Inv, SeenIntact, TypeOK, Row, Visible
  <2>1. CASE V = {} /\ InsertRow(t, c, NewRow(c, p, GenesisHash(c), now))
    <3> DEFINE r == NewRow(c, p, GenesisHash(c), now)
    <3>1. r.case = c /\ r.at \in Nat
      BY DEF NewRow
    <3>2. VerifyChain(c, {r})
      BY FirstRow
    <3>3. V \cup {r} = {r}
      BY <2>1
    <3> QED
      BY <2>1, <3>1, <3>2, <3>3
  <2>2. ASSUME NEW q \in V, IsLatest(V, q),
               InsertRow(t, c, NewRow(c, p, q.hash, CreatedAt(now, q.at)))
        PROVE  \E r : Extends(r)
    <3> DEFINE at == CreatedAt(now, q.at)
               r == NewRow(c, p, q.hash, at)
    <3>1. at \in Nat /\ q.at < at
      BY <2>0, <2>2 DEF CreatedAt
    <3>2. r.case = c /\ r.at = at
      BY DEF NewRow
    <3>3. \A x \in V : x.at < r.at
      BY <3>1, <3>2, <2>0, <2>2 DEF IsLatest
    <3>4. VerifyChain(c, V \cup {r})
      BY <3>1, <2>0, <2>2, NextRow
    <3> QED
      BY <2>2, <3>1, <3>2, <3>3, <3>4
  <2> QED
    BY <2>1, <2>2 DEF RecordCaseEventTx
<1>2. /\ UNCHANGED <<case_events, status>>
      /\ inserted' = [inserted EXCEPT ![t] = @ \cup {r}]
      /\ status[t] = "open"
      /\ lock[c] \in {NoTx, t}
      /\ lock' = [lock EXCEPT ![c] = t]
  BY <1>1 DEF RecordCaseEventTx, InsertRow, AcquireChainLock
<1>3. /\ inserted'[t] = inserted[t] \cup {r}
      /\ \A u \in Txs \ {t} : inserted'[u] = inserted[u]
      /\ lock'[c] = t
      /\ \A d \in Cases \ {c} : lock'[d] = lock[d]
  BY <1>2 DEF Inv, TypeOK
<1>4. \A u \in Txs \ {t} : \A x \in inserted[u] : x.case \in Cases \ {c}
  BY <1>2 DEF Inv, RowsAreGuarded, TypeOK, Row
<1>5. RowsAreGuarded'
  <2> SUFFICES ASSUME NEW u \in Txs, NEW x \in inserted'[u]
               PROVE  /\ status[u] \in {"open", "error"}
                      /\ lock'[x.case] = u
                      /\ \A q \in case_events[x.case] : q.at < x.at
    BY <1>2 DEF RowsAreGuarded
  <2>1. CASE u = t /\ x = r
    BY <2>1, <1>1, <1>2, <1>3 DEF Visible
  <2>2. CASE x \in inserted[u]
    <3>1. x.case \in Cases
      BY <2>2 DEF Inv, TypeOK, Row
    <3>2. lock'[x.case] = u
      BY <2>2, <3>1, <1>3, <1>4 DEF Inv, RowsAreGuarded
    <3> QED
      BY <2>2, <3>2 DEF Inv, RowsAreGuarded
  <2> QED
    BY <2>1, <2>2, <1>3
<1>6. SeenIntact'
  <2> SUFFICES ASSUME NEW u \in Txs, NEW d \in Cases
               PROVE  VerifyChain(d, Visible(u, d)')
    BY DEF SeenIntact
  <2>1. CASE u = t /\ d = c
    <3>1. Visible(u, d)' = V \cup {r}
      BY <2>1, <1>1, <1>2, <1>3 DEF Visible
    <3> QED
      BY <3>1, <2>1, <1>1
  <2>2. CASE ~(u = t /\ d = c)
    <3>1. Visible(u, d)' = Visible(u, d)
      BY <2>2, <1>1, <1>2, <1>3 DEF Visible
    <3> QED
      BY <3>1 DEF Inv, SeenIntact
  <2> QED
    BY <2>1, <2>2
<1>7. ChainIntact'
  BY <1>2 DEF Inv, ChainIntact
<1> QED
  BY <1>5, <1>6, <1>7 DEF Inv

-----------------------------------------------------------------------------
\* Every step of the audit service preserves the types: what it inserts is a
\* row, and the lists of events hold rows.
LEMMA TypeStep ==
  ASSUME TypeOK, [Next]_vars
  PROVE  TypeOK'
<1> USE AuditAssumption DEF TypeOK, Statuses
<1>1. ASSUME NEW t \in Txs, BeginTx(t) PROVE TypeOK'
  BY <1>1 DEF BeginTx
<1>2. ASSUME NEW t \in Txs, NEW c \in Cases, NEW p \in Payloads, NEW now \in Times,
             RecordCaseEventTx(t, c, p, now)
      PROVE  TypeOK'
  <2>1. PICK r \in Row : InsertRow(t, c, r)
    <3>1. GenesisHash(c) \in Hash
      BY DEF GenesisHash, Hash
    <3>2. CASE InsertRow(t, c, NewRow(c, p, GenesisHash(c), now))
      BY <3>1, <3>2, HashType
    <3>3. ASSUME NEW q \in Visible(t, c),
                 InsertRow(t, c, NewRow(c, p, q.hash, CreatedAt(now, q.at)))
          PROVE  \E r \in Row : InsertRow(t, c, r)
      <4>1. q.hash \in Hash /\ CreatedAt(now, q.at) \in Nat
        BY DEF Visible, Row, CreatedAt
      <4> QED
        BY <3>3, <4>1, HashType
    <3> QED
      BY <1>2, <3>2, <3>3 DEF RecordCaseEventTx
  <2>2. inserted' \in [Txs -> SUBSET Row]
    BY <2>1 DEF InsertRow
  <2>3. pending' \in [Txs -> Seq(Row)]
    BY <2>1 DEF InsertRow
  <2> QED
    BY <1>2, <2>2, <2>3 DEF RecordCaseEventTx, AcquireChainLock
<1>3. ASSUME NEW t \in Txs, NEW p \in Payloads, RejectEvent(t, p) PROVE TypeOK'
  BY <1>3 DEF RejectEvent
<1>4. ASSUME NEW t \in Txs PROVE Publish(t) \in [Cases -> SUBSET Row]
  BY DEF Publish, Visible
<1>5. ASSUME NEW t \in Txs PROVE Release(t) \in [Cases -> Txs \cup {NoTx}]
  BY DEF Release
<1>6. ASSUME NEW t \in Txs, Commit(t) PROVE TypeOK'
  BY <1>4, <1>5, <1>6 DEF Commit
<1>7. ASSUME NEW t \in Txs, CommitFails(t) PROVE TypeOK'
  BY <1>4, <1>5, <1>7 DEF CommitFails
<1>8. ASSUME NEW t \in Txs, FlushPending(t) PROVE TypeOK'
  BY <1>8 DEF FlushPending
<1>9. ASSUME NEW t \in Txs, Callback(t) PROVE TypeOK'
  <2>1. Head(calling[t]) \in Row /\ Tail(calling[t]) \in Seq(Row)
    BY <1>9 DEF Callback
  <2> QED
    BY <1>9, <2>1 DEF Callback
<1>10. ASSUME NEW t \in Txs, CommitReturns(t) PROVE TypeOK'
  BY <1>10 DEF CommitReturns
<1>11. ASSUME NEW t \in Txs, RollbackTx(t) PROVE TypeOK'
  BY <1>5, <1>11 DEF RollbackTx
<1>12. CASE Crash
  BY <1>12 DEF Crash
<1>13. CASE UNCHANGED vars
  BY <1>13 DEF vars
<1> QED
  BY <1>1, <1>2, <1>3, <1>6, <1>7, <1>8, <1>9, <1>10, <1>11, <1>12, <1>13 DEF Next, TxNext

LEMMA InvStep ==
  ASSUME Inv, [Next]_vars
  PROVE  Inv'
<1>0. TypeOK'
  BY TypeStep DEF Inv
<1>1. ASSUME NEW t \in Txs, BeginTx(t) PROVE Inv'
  BY <1>0, <1>1, RowsOnlyDropped DEF BeginTx, Inv, TypeOK, RowsAreGuarded
<1>2. ASSUME NEW t \in Txs, NEW c \in Cases, NEW p \in Payloads, NEW now \in Times,
             RecordCaseEventTx(t, c, p, now)
      PROVE  Inv'
  BY <1>0, <1>2, RowRecorded
<1>3. ASSUME NEW t \in Txs, NEW p \in Payloads, RejectEvent(t, p) PROVE Inv'
  BY <1>0, <1>3, RowsOnlyDropped DEF RejectEvent, Inv, TypeOK, RowsAreGuarded
<1>4. ASSUME NEW t \in Txs, Commit(t) PROVE Inv'
  BY <1>0, <1>4, RowsPublished DEF Commit, Inv, TypeOK
<1>5. ASSUME NEW t \in Txs, CommitFails(t) PROVE Inv'
  <2>1. CASE case_events' = Publish(t)
    BY <1>0, <1>5, <2>1, RowsPublished DEF CommitFails, Inv, TypeOK
  <2>2. CASE case_events' = case_events
    BY <1>0, <1>5, <2>2, RowsOnlyDropped DEF CommitFails, Inv, TypeOK, RowsAreGuarded, Release
  <2> QED
    BY <1>5, <2>1, <2>2 DEF CommitFails
<1>6. ASSUME NEW t \in Txs, FlushPending(t) PROVE Inv'
  BY <1>0, <1>6, RowsOnlyDropped DEF FlushPending, Inv, TypeOK, RowsAreGuarded
<1>7. ASSUME NEW t \in Txs, Callback(t) PROVE Inv'
  BY <1>0, <1>7, RowsOnlyDropped DEF Callback, Inv, TypeOK, RowsAreGuarded
<1>8. ASSUME NEW t \in Txs, CommitReturns(t) PROVE Inv'
  BY <1>0, <1>8, RowsOnlyDropped DEF CommitReturns, Inv, TypeOK, RowsAreGuarded
<1>9. ASSUME NEW t \in Txs, RollbackTx(t) PROVE Inv'
  BY <1>0, <1>9, RowsOnlyDropped DEF RollbackTx, Inv, TypeOK, RowsAreGuarded, Release
<1>10. CASE Crash
  BY <1>0, <1>10, RowsOnlyDropped DEF Crash, Inv, TypeOK
<1>11. CASE UNCHANGED vars
  BY <1>0, <1>11, RowsOnlyDropped DEF vars, Inv, TypeOK, RowsAreGuarded
<1> QED
  BY <1>1, <1>2, <1>3, <1>4, <1>5, <1>6, <1>7, <1>8, <1>9, <1>10, <1>11 DEF Next, TxNext

LEMMA InvInit == Init => Inv
<1> SUFFICES ASSUME Init PROVE Inv
  OBVIOUS
<1>1. TypeOK
  BY DEF Init, TypeOK, Statuses
<1>2. RowsAreGuarded
  BY DEF Init, RowsAreGuarded
<1>3. \A t \in Txs, c \in Cases : Visible(t, c) = {}
  BY DEF Init, Visible
<1>4. SeenIntact /\ ChainIntact
  BY <1>3, EmptyChain DEF Init, SeenIntact, ChainIntact
<1> QED
  BY <1>1, <1>2, <1>4 DEF Inv

\* Every reachable state satisfies the inductive invariant; in particular an
\* uncommitted event is always covered by the advisory lock of its case.
THEOREM Invariance == Spec => []Inv
<1>1. Inv /\ [Next]_vars => Inv'
  BY InvStep
<1> QED
  BY InvInit, <1>1, PTL DEF Spec

\* However many writers record events of a case and whatever their clocks say,
\* VerifyChain accepts the committed trail.
THEOREM AuditChainIntact == Spec => []ChainIntact
<1>1. Inv => ChainIntact
  BY DEF Inv
<1> QED
  BY Invariance, <1>1, PTL

\* The trail implements an append-only log: committed events stay, and a new
\* event is later than all that were readable before it.
THEOREM AuditTrailAppendOnly == Spec => TrailIsAppendOnly
<1>1. Init => Abstract!Init
  BY DEF Init, Abstract!Init
<1>2. Inv /\ [Next]_vars => [Abstract!Extend]_case_events
  <2> SUFFICES ASSUME Inv, [Next]_vars PROVE [Abstract!Extend]_case_events
    OBVIOUS
  <2>1. ASSUME NEW t \in Txs, case_events' = Publish(t)
        PROVE  Abstract!Extend
    <3> SUFFICES ASSUME NEW c \in Cases
                 PROVE  Abstract!IsExtension(case_events'[c], case_events[c])
      BY DEF Abstract!Extend
    <3>1. case_events'[c] = case_events[c] \cup {r \in inserted[t] : r.case = c}
      BY <2>1 DEF Publish, Visible
    <3> QED
      BY <3>1 DEF Abstract!IsExtension, Inv, RowsAreGuarded
  <2>2. (\E t \in Txs : case_events' = Publish(t)) \/ case_events' = case_events
    BY DEF Next, TxNext, vars, BeginTx, RecordCaseEventTx, RejectEvent, Commit, CommitFails,
           FlushPending, Callback, CommitReturns, RollbackTx, Crash
  <2> QED
    BY <2>1, <2>2
<1> QED
  BY Invariance, <1>1, <1>2, PTL DEF Spec, TrailIsAppendOnly, Abstract!Spec

=============================================================================
