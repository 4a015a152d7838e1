----------------------------- MODULE SlaMonitor -----------------------------
(***************************************************************************)
(* Deadlines of human tasks: the monitor that looks for overdue tasks, the *)
(* escalation of what it finds, and the users who work on the tasks        *)
(* meanwhile.                                                              *)
(*                                                                         *)
(* The monitor reads a batch of overdue tasks, then treats them one by one,*)
(* each in two transactions: the breach, and the escalation.  Users claim, *)
(* complete and reassign tasks and cancel cases in between.  Every task    *)
(* here is of a case of its own, and an overdue task stays overdue.        *)
(***************************************************************************)
EXTENDS Integers, FiniteSets

CONSTANTS
    Tasks,
    Deadline,       \* sla_deadline of each task, all different
    Action,         \* what its escalation is: "", "notify", "reassign" or "both"
    Users,
    ToRole,         \* the active users with the role escalations go to
    Seniority,      \* the order in which users were created
    Nobody,
    Limit,          \* LIMIT of the query, 1000 in the code
    MaxTime,        \* bound: the clock stops here
    MaxFaults       \* bound: how many transactions of the monitor fail

Actions == {"", "notify", "reassign", "both"}

ASSUME SlaAssumption ==
    /\ Deadline \in [Tasks -> Nat]
    /\ Action \in [Tasks -> Actions]
    /\ ToRole \subseteq Users
    /\ Seniority \in [Users -> Nat]
    /\ Nobody \notin Users
    /\ Limit \in Nat \ {0}
    /\ MaxTime \in Nat
    /\ MaxFaults \in Nat

VARIABLES
    now,
    state,          \* case_steps.state of each task
    assigned,       \* case_steps.assigned_to
    cancelled,      \* the tasks whose case is cancelled
    monitor,        \* where the monitor is: "waiting", "scanning" or "treating"
    batch,          \* the tasks of the last scan that are still to be treated
    count,          \* how many there were
    escalating,     \* the tasks whose breach is recorded, escalation to come
    breached,       \* the tasks with an event "sla_breach"
    handled,        \* the tasks for which the callback has returned
    faults

users == <<state, assigned, cancelled>>

vars == <<now, users, monitor, batch, count, escalating, breached, handled, faults>>

IsOverdue(t) == state[t] = "active" /\ Deadline[t] < now

Overdue == {t \in Tasks : IsOverdue(t)}

\* ORDER BY sla_deadline LIMIT ...
Earliest(S) == {t \in S : Cardinality({u \in S : Deadline[u] < Deadline[t]}) < Limit}

Init ==
    /\ now = 0
    /\ state = [t \in Tasks |-> "active"]
    /\ assigned \in [Tasks -> {Nobody} \cup Users]
    /\ cancelled = {}
    /\ monitor = "waiting"
    /\ batch = {}
    /\ count = 0
    /\ escalating = {}
    /\ breached = {}
    /\ handled = {}
    /\ faults = 0

Tick ==
    /\ now < MaxTime
    /\ now' = now + 1
    /\ UNCHANGED <<users, monitor, batch, count, escalating, breached, handled, faults>>

-----------------------------------------------------------------------------
\* The ticker of StartSLAMonitor fires.
StartSLAMonitor ==
    /\ monitor = "waiting"
    /\ monitor' = "scanning"
    /\ UNCHANGED <<now, users, batch, count, escalating, breached, handled, faults>>

\* The query of checkOverdueTasks.
checkOverdueTasks ==
    /\ monitor = "scanning"
    /\ monitor' = "treating"
    /\ batch' = Earliest(Overdue)
    /\ count' = Cardinality(Earliest(Overdue))
    /\ UNCHANGED <<now, users, escalating, breached, handled, faults>>

\* The query fails: the monitor waits for its ticker.
checkFails ==
    /\ monitor = "scanning"
    /\ faults < MaxFaults
    /\ faults' = faults + 1
    /\ monitor' = "waiting"
    /\ UNCHANGED <<now, users, batch, count, escalating, breached, handled>>

\* The task of the batch whose turn it is.
Turn(t) ==
    /\ monitor = "treating"
    /\ escalating = {}
    /\ t \in batch
    /\ \A u \in batch : Deadline[t] <= Deadline[u]

\* Mutant: the breach is recorded on what the scan has read.
recordSLABreach_Stale(t) ==
    /\ Turn(t)
    /\ batch' = batch \ {t}
    /\ breached' = breached \cup {t}
    /\ escalating' = {t}
    /\ UNCHANGED <<now, users, monitor, count, handled, faults>>

\* The breach is recorded if the task, read again under the lock of its case, is
\* still overdue and the case is not cancelled.
recordSLABreach(t) ==
    /\ Turn(t)
    /\ batch' = batch \ {t}
    /\ IF t \notin cancelled /\ IsOverdue(t)
       THEN breached' = breached \cup {t} /\ escalating' = {t}
       ELSE UNCHANGED <<breached, escalating>>
    /\ UNCHANGED <<now, users, monitor, count, handled, faults>>

\* The transaction fails, and the next task has its turn.
recordFails(t) ==
    /\ Turn(t)
    /\ faults < MaxFaults
    /\ faults' = faults + 1
    /\ batch' = batch \ {t}
    /\ UNCHANGED <<now, users, monitor, count, escalating, breached, handled>>

\* How many active tasks a user has.
Load(u) == Cardinality({t \in Tasks : state[t] = "active" /\ assigned[t] = u})

Before(u, v) == Load(u) < Load(v) \/ (Load(u) = Load(v) /\ Seniority[u] <= Seniority[v])

pickLeastLoadedUserTx == {u \in ToRole : \A v \in ToRole : Before(u, v)}

\* Mutant: an ended task is reassigned too.
EscalateTask_Ended(t, action) ==
    IF action \in {"reassign", "both"}
    THEN \/ \E u \in pickLeastLoadedUserTx : assigned' = [assigned EXCEPT ![t] = u]
         \/ pickLeastLoadedUserTx = {} /\ UNCHANGED assigned
    ELSE UNCHANGED assigned

\* A task that ended after its breach keeps its user ("escalation_suppressed").
EscalateTask(t, action) ==
    IF state[t] = "active" /\ action \in {"reassign", "both"}
    THEN \/ \E u \in pickLeastLoadedUserTx : assigned' = [assigned EXCEPT ![t] = u]
         \/ pickLeastLoadedUserTx = {} /\ UNCHANGED assigned
    ELSE UNCHANGED assigned

HandleOverdue(t) ==
    /\ t \in escalating
    /\ escalating' = {}
    /\ IF Action[t] = "" THEN UNCHANGED assigned ELSE EscalateTask(t, Action[t])
    /\ handled' = handled \cup {t}
    /\ UNCHANGED <<now, state, cancelled, monitor, batch, count, breached, faults>>

\* The callback fails; its error is discarded.
HandleOverdueFails(t) ==
    /\ t \in escalating
    /\ faults < MaxFaults
    /\ faults' = faults + 1
    /\ escalating' = {}
    /\ UNCHANGED <<now, users, monitor, batch, count, breached, handled>>


\* A full batch is followed by another scan at once.
EndOfBatch ==
    /\ monitor = "treating"
    /\ batch = {}
    /\ escalating = {}
    /\ monitor' = IF count < Limit THEN "waiting" ELSE "scanning"
    /\ UNCHANGED <<now, users, batch, count, escalating, breached, handled, faults>>

-----------------------------------------------------------------------------
\* Users at work.  A task is claimed if it is active and nobody has it.
ClaimTask(u, t) ==
    /\ state[t] = "active"
    /\ assigned[t] = Nobody
    /\ assigned' = [assigned EXCEPT ![t] = u]
    /\ UNCHANGED <<now, state, cancelled, monitor, batch, count, escalating, breached, handled, faults>>

CompleteTask(u, t) ==
    /\ state[t] = "active"
    /\ assigned[t] = u
    /\ state' = [state EXCEPT ![t] = "completed"]
    /\ UNCHANGED <<now, assigned, cancelled, monitor, batch, count, escalating, breached, handled, faults>>

ReassignTask(u, t) ==
    /\ state[t] = "active"
    /\ assigned' = [assigned EXCEPT ![t] = u]
    /\ UNCHANGED <<now, state, cancelled, monitor, batch, count, escalating, breached, handled, faults>>

\* A user escalates a task, overdue or not; the request says how.
Escalate(t) ==
    /\ \E action \in Actions : EscalateTask(t, action)
    /\ UNCHANGED <<now, state, cancelled, monitor, batch, count, escalating, breached, handled, faults>>

\* Mutant: the task takes the name of the state of its case.
cancelCase_Named(t) ==
    /\ cancelled' = cancelled \cup {t}
    /\ state' = [state EXCEPT ![t] = IF @ = "active" THEN "cancelled" ELSE @]
    /\ UNCHANGED <<now, assigned, monitor, batch, count, escalating, breached, handled, faults>>

\* Cancelling its case skips a task.
cancelCase(t) ==
    /\ cancelled' = cancelled \cup {t}
    /\ state' = [state EXCEPT ![t] = IF @ = "active" THEN "skipped" ELSE @]
    /\ UNCHANGED <<now, assigned, monitor, batch, count, escalating, breached, handled, faults>>

Monitor ==
    \/ StartSLAMonitor
    \/ checkOverdueTasks
    \/ EndOfBatch
    \/ \E t \in Tasks : recordSLABreach(t) \/ HandleOverdue(t)

Next ==
    \/ Tick
    \/ Monitor
    \/ checkFails
    \/ \E t \in Tasks :
          recordFails(t) \/ HandleOverdueFails(t) \/ Escalate(t) \/ cancelCase(t)
    \/ \E u \in Users, t \in Tasks :
          ClaimTask(u, t) \/ CompleteTask(u, t) \/ ReassignTask(u, t)

Spec == Init /\ [][Next]_vars

\* The goroutine of the monitor runs, and its transactions succeed in the end.
FairSpec == Spec /\ WF_vars(Tick) /\ WF_vars(Monitor)
-----------------------------------------------------------------------------
\* Every variable has its type.
TypeOK ==
    /\ now \in 0 .. MaxTime
    /\ state \in [Tasks -> {"active", "completed", "skipped"}]
    /\ assigned \in [Tasks -> {Nobody} \cup Users]
    /\ monitor \in {"waiting", "scanning", "treating"}
    /\ cancelled \subseteq Tasks
    /\ batch \subseteq Tasks
    /\ count \in 0 .. Limit
    /\ escalating \subseteq Tasks
    /\ breached \subseteq Tasks
    /\ handled \subseteq Tasks
    /\ faults \in 0 .. MaxFaults

\* A breach is recorded of a task that is overdue at that moment, in a case that
\* is not cancelled, however old the scan is that found it.
BreachIsReal ==
    [][\A t \in breached' \ breached : IsOverdue(t) /\ t \notin cancelled]_vars

\* What has ended stays with the user who had it: an escalation that comes after
\* the task was completed or its case cancelled does not take it away.
EndedKeepsItsUser ==
    [][\A t \in Tasks : state[t] # "active" => assigned'[t] = assigned[t]]_vars

=============================================================================
