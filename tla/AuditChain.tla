----------------------------- MODULE AuditChain -----------------------------
(***************************************************************************)
(* The hash-chained audit trail of a case: internal/audit/audit.go.        *)
(*                                                                         *)
(* Every state change of a case records an event in table case_events      *)
(* inside the caller's database transaction.  An event carries the hash of *)
(* the event before it.  Two transactions that write to the same case are  *)
(* kept apart only by a transaction-scoped advisory lock that is taken in  *)
(* RecordCaseEventTx itself; the "event before" is whatever row has the    *)
(* largest created_at among the rows the transaction can see.              *)
(*                                                                         *)
(* The clock is read anew for every event and may stand still or go back.  *)
(* A SHA-256 hash is modelled by the sequence of what was hashed, so two   *)
(* hashes are equal only if everything before them is.                     *)
(***************************************************************************)
EXTENDS Naturals, Sequences, FiniteSets

CONSTANTS
    Cases,          \* case ids
    Txs,            \* database transactions (*sql.Tx)
    NoTx,           \* the advisory lock of a case is free
    Payloads,       \* what an event says: event_type, action, actor, data
    Registered,     \* the payloads whose pair is in EventTypeRegistry
    Times,          \* readings of the clock, in microseconds
    PerPageMax      \* the most events ListCaseEvents returns: 200

ASSUME AuditAssumption ==
    /\ NoTx \notin Txs
    /\ Registered \subseteq Payloads
    /\ Times \subseteq Nat
    /\ PerPageMax \in Nat \ {0}

VARIABLES
    case_events,    \* the committed rows of each case
    status,         \* of each transaction
    inserted,       \* the uncommitted rows of each transaction
    lock,           \* pg_advisory_xact_lock of each case
    pending,        \* Service.pending: recorded events, per transaction
    calling,        \* events CommitTx has flushed and not yet handed over
    delivered       \* events the OnCommitted callbacks have seen, in order

vars == <<case_events, status, inserted, lock, pending, calling, delivered>>

GenesisHash(c) == <<c>>

ComputeHash(prev, payload, at) == Append(prev, <<payload, at>>)

Hash == Seq(Cases \cup (Payloads \X Nat))

Row == [case : Cases, payload : Payloads, at : Nat, prev : Hash, hash : Hash]

IsRegistered(payload) == payload \in Registered

Earlier(R, r) == {q \in R : q.at < r.at}

\* ORDER BY created_at DESC, id DESC LIMIT 1.
IsLatest(R, r) == r \in R /\ \A q \in R : q.at <= r.at

\* The loop of VerifyChain over the rows of one case in created_at order.
VerifyChain(c, R) ==
    /\ \A r \in R : r.case = c /\ r.hash = ComputeHash(r.prev, r.payload, r.at)
    /\ \A q, r \in R : q.at = r.at => q = r
    /\ \A r \in R :
          \/ Earlier(R, r) = {} /\ r.prev = GenesisHash(c)
          \/ \E q \in R : IsLatest(Earlier(R, r), q) /\ r.prev = q.hash

-----------------------------------------------------------------------------
Init ==
    /\ case_events = [c \in Cases |-> {}]
    /\ status = [t \in Txs |-> "idle"]
    /\ inserted = [t \in Txs |-> {}]
    /\ lock = [c \in Cases |-> NoTx]
    /\ pending = [t \in Txs |-> <<>>]
    /\ calling = [t \in Txs |-> <<>>]
    /\ delivered = <<>>

BeginTx(t) ==
    /\ status[t] = "idle"
    /\ status' = [status EXCEPT ![t] = "open"]
    /\ UNCHANGED <<case_events, inserted, lock, pending, calling, delivered>>

\* The rows of case c that transaction t sees: READ COMMITTED, plus its own.
Visible(t, c) == case_events[c] \cup {r \in inserted[t] : r.case = c}

\* Mutant: the clock reading is stored as it is.
CreatedAt_NotMovedOn(now, prevAt) == now

\* Mutant: moved to the wrong side of the previous event.
CreatedAt_MovedBack(now, prevAt) == IF now > prevAt THEN now ELSE prevAt - 1

\* now := time.Now(), moved past the previous event when it is not after it.
CreatedAt(now, prevAt) == IF now > prevAt THEN now ELSE prevAt + 1

NewRow(c, payload, prev, at) ==
    [case |-> c, payload |-> payload, at |-> at, prev |-> prev,
     hash |-> ComputeHash(prev, payload, at)]

InsertRow(t, c, r) ==
    /\ inserted' = [inserted EXCEPT ![t] = @ \cup {r}]
    /\ pending' = [pending EXCEPT ![t] = Append(@, r)]

\* Mutant: the advisory lock is taken in a transaction of its own.
AcquireChainLock_NotHeld(t, c) == UNCHANGED lock

\* Blocks while another transaction holds the lock of c.
AcquireChainLock(t, c) ==
    /\ lock[c] \in {NoTx, t}
    /\ lock' = [lock EXCEPT ![c] = t]

RecordCaseEventTx(t, c, payload, now) ==
    /\ status[t] = "open"
    /\ IsRegistered(payload)
    /\ AcquireChainLock(t, c)
    /\ \/ /\ Visible(t, c) = {}
          /\ InsertRow(t, c, NewRow(c, payload, GenesisHash(c), now))
       \/ \E q \in Visible(t, c) :
             /\ IsLatest(Visible(t, c), q)
             /\ InsertRow(t, c, NewRow(c, payload, q.hash, CreatedAt(now, q.at)))
    /\ UNCHANGED <<case_events, status, calling, delivered>>

\* An unregistered event is an error; every caller returns it, and its
\* deferred RollbackTx is all that can follow.
RejectEvent(t, payload) ==
    /\ status[t] = "open"
    /\ ~ IsRegistered(payload)
    /\ status' = [status EXCEPT ![t] = "error"]
    /\ UNCHANGED <<case_events, inserted, lock, pending, calling, delivered>>

Release(t) == [c \in Cases |-> IF lock[c] = t THEN NoTx ELSE lock[c]]

Publish(t) == [c \in Cases |-> Visible(t, c)]

\* tx.Commit() succeeds; the callbacks have yet to run.
Commit(t) ==
    /\ status[t] = "open"
    /\ case_events' = Publish(t)
    /\ inserted' = [inserted EXCEPT ![t] = {}]
    /\ lock' = Release(t)
    /\ status' = [status EXCEPT ![t] = "committed"]
    /\ UNCHANGED <<pending, calling, delivered>>

\* Mutant: a failed commit returns without flushing its events.
CommitFails_NoFlush(t) ==
    /\ status[t] = "open"
    /\ case_events' \in {case_events, Publish(t)}
    /\ inserted' = [inserted EXCEPT ![t] = {}]
    /\ lock' = Release(t)
    /\ status' = [status EXCEPT ![t] = "idle"]
    /\ UNCHANGED <<pending, calling, delivered>>

\* tx.Commit() returns an error: the connection broke before the server
\* committed, or after.  The events are flushed and nobody hears of them.
CommitFails(t) ==
    /\ status[t] = "open"
    /\ case_events' \in {case_events, Publish(t)}
    /\ inserted' = [inserted EXCEPT ![t] = {}]
    /\ lock' = Release(t)
    /\ pending' = [pending EXCEPT ![t] = <<>>]
    /\ status' = [status EXCEPT ![t] = "idle"]
    /\ UNCHANGED <<calling, delivered>>

\* Mutant: the events are handed over before tx.Commit() is called.
FlushPending_BeforeCommit(t) ==
    /\ status[t] \in {"open", "committed"}
    /\ calling' = [calling EXCEPT ![t] = pending[t]]
    /\ pending' = [pending EXCEPT ![t] = <<>>]
    /\ status' = [status EXCEPT ![t] = "calling"]
    /\ UNCHANGED <<case_events, inserted, lock, delivered>>

FlushPending(t) ==
    /\ status[t] = "committed"
    /\ calling' = [calling EXCEPT ![t] = pending[t]]
    /\ pending' = [pending EXCEPT ![t] = <<>>]
    /\ status' = [status EXCEPT ![t] = "calling"]
    /\ UNCHANGED <<case_events, inserted, lock, delivered>>

\* One turn of CommitTx's loop over the flushed events; a callback that
\* panics is recovered from, so the loop always goes on.
Callback(t) ==
    /\ status[t] = "calling"
    /\ calling[t] # <<>>
    /\ delivered' = Append(delivered, Head(calling[t]))
    /\ calling' = [calling EXCEPT ![t] = Tail(@)]
    /\ UNCHANGED <<case_events, status, inserted, lock, pending>>

CommitReturns(t) ==
    /\ status[t] = "calling"
    /\ calling[t] = <<>>
    /\ status' = [status EXCEPT ![t] = "idle"]
    /\ UNCHANGED <<case_events, inserted, lock, pending, calling, delivered>>

RollbackTx(t) ==
    /\ status[t] \in {"open", "error"}
    /\ pending' = [pending EXCEPT ![t] = <<>>]
    /\ inserted' = [inserted EXCEPT ![t] = {}]
    /\ lock' = Release(t)
    /\ status' = [status EXCEPT ![t] = "idle"]
    /\ UNCHANGED <<case_events, calling, delivered>>

\* The process stops: the server rolls back what was open, and the memory of
\* the service is gone.
Crash ==
    /\ status' = [t \in Txs |-> "idle"]
    /\ inserted' = [t \in Txs |-> {}]
    /\ lock' = [c \in Cases |-> NoTx]
    /\ pending' = [t \in Txs |-> <<>>]
    /\ calling' = [t \in Txs |-> <<>>]
    /\ UNCHANGED <<case_events, delivered>>

TxNext(t) ==
    \/ BeginTx(t)
    \/ \E c \in Cases, p \in Payloads, now \in Times : RecordCaseEventTx(t, c, p, now)
    \/ \E p \in Payloads : RejectEvent(t, p)
    \/ Commit(t)
    \/ CommitFails(t)
    \/ FlushPending(t)
    \/ Callback(t)
    \/ CommitReturns(t)
    \/ RollbackTx(t)

Next == Crash \/ \E t \in Txs : TxNext(t)

Spec == Init /\ [][Next]_vars

-----------------------------------------------------------------------------
Statuses == {"idle", "open", "error", "committed", "calling"}

\* Every variable holds a value of its type: rows are complete case_events
\* records and an advisory lock is free or held by one transaction.
TypeOK ==
    /\ case_events \in [Cases -> SUBSET Row]
    /\ status \in [Txs -> Statuses]
    /\ inserted \in [Txs -> SUBSET Row]
    /\ lock \in [Cases -> Txs \cup {NoTx}]
    /\ pending \in [Txs -> Seq(Row)]
    /\ calling \in [Txs -> Seq(Row)]
    /\ delivered \in Seq(Row)

\* VerifyCaseChain accepts the committed trail of every case at every moment:
\* the events form one chain from the genesis hash, in created_at order,
\* whatever the interleaving of writers and whatever the clock does.
ChainIntact == \A c \in Cases : VerifyChain(c, case_events[c])

\* The callbacks of OnCommitted (the activity feed) see only events that are
\* durably in the trail, and see none of them twice: neither a rollback nor a
\* failed commit leaves an event behind for a later transaction to announce.
AnnouncedOnce ==
    /\ \A i \in DOMAIN delivered : delivered[i] \in case_events[delivered[i].case]
    /\ \A i, j \in DOMAIN delivered : delivered[i] = delivered[j] => i = j

\* The map Service.pending holds an entry only for a transaction still in
\* progress, and exactly the events that transaction inserted.
PendingIsInserted ==
    \A t \in Txs :
        /\ status[t] \in {"idle", "calling"} => pending[t] = <<>>
        /\ status[t] \in {"open", "error"} =>
              {pending[t][i] : i \in DOMAIN pending[t]} = inserted[t]

Abstract == INSTANCE AppendOnlyLog WITH LogIds <- Cases, log <- case_events

\* "Audit trail is append-only": the trail of a case only ever grows, and at
\* its end in created_at order; no event appears before one that a reader of
\* ListCaseEvents may already have seen.
TrailIsAppendOnly == Abstract!Spec

\* The number of events VerifyCaseChain and the two exports look at: they ask
\* ListCaseEvents for a page of 1000000 and are given one of PerPageMax.
ListedEvents(c) == {r \in case_events[c] : Cardinality(Earlier(case_events[c], r)) < PerPageMax}

\* "Verify the hash chain integrity of a case's audit trail": the events that
\* VerifyCaseChain passes on to VerifyChain are all the events of the case.
WholeTrailVerified == \A c \in Cases : ListedEvents(c) = case_events[c]

=============================================================================
