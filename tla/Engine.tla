------------------------------- MODULE Engine -------------------------------
(***************************************************************************)
(* One case in the execution engine (internal/engine), with the human      *)
(* tasks (internal/tasks) and case commands (internal/cases) that work on  *)
(* the same rows.                                                          *)
(*                                                                         *)
(* A database transaction is one action.  Every transaction that changes a *)
(* step also updates, and so locks, the row of the case before it commits; *)
(* hence they are serialised, and what evaluateDAG reads after locking the *)
(* case is still true when it commits.  What happens in between            *)
(* transactions is in memory: evaluations that were triggered, executions  *)
(* that were dispatched.  A crash loses both.                              *)
(***************************************************************************)
EXTENDS DagEval

CONSTANTS
    Workflows,      \* the published workflow versions a case may be bound to
    Users,          \* principals
    NoUser,
    RetryLimit,     \* the largest max_attempts of an error policy
    MaxFaults       \* crashes and errors of the environment in one behaviour

StepTypes == {"human_task", "agent", "integration", "rule"}

\* A workflow version: its graph, and per step what the engine reads of it.
Workflow == [graph       : Graph,
             type        : [Steps -> StepTypes],
             idempotent  : SUBSET Steps,
             conditional : SUBSET Steps,
             maxAttempts : [Steps -> 1..RetryLimit],
             onExhausted : [Steps -> {"fail", "skip"} \cup Steps],
             keys        : [Steps -> SUBSET OutcomeNames],
             reviewKeys  : [Steps -> SUBSET OutcomeNames],
             assignTo    : [Steps -> Users \cup {NoUser}],
             role        : [Steps -> SUBSET Users]]

ASSUME EngineAssumption ==
    /\ NoUser \notin Users
    /\ NoOutcome \notin OutcomeNames
    /\ RetryLimit \in Nat
    /\ MaxFaults \in Nat
    /\ Workflows \subseteq Workflow
    /\ Steps \cap {"fail", "skip"} = {}

VARIABLES
    wf,             \* the workflow version of the case
    status,         \* cases.status
    state,          \* case_steps.state
    outcome,        \* the outcome in case_steps.result
    retryCount,     \* case_steps.retry_count
    assignedTo,     \* case_steps.assigned_to
    created,        \* the steps whose metadata CreateTaskFromActivation wrote
    evals,          \* evaluations triggered and not yet run
    thread,         \* where the execution of each step is
    closing,        \* a CloseCase that found no active step, not yet committed
    recovery,       \* Recover: is it at work on the case, and with which steps
    faults          \* crashes and errors so far

stepVars == <<state, outcome, retryCount>>
taskVars == <<assignedTo, created>>
vars == <<wf, status, stepVars, taskVars, evals, thread, closing, recovery, faults>>

-----------------------------------------------------------------------------
\* CreateCase has committed, and calls EvaluateDAG next.
Init ==
    /\ wf \in Workflows
    /\ status = "open"
    /\ state = [s \in Steps |-> "pending"]
    /\ outcome = [s \in Steps |-> NoOutcome]
    /\ retryCount = [s \in Steps |-> 0]
    /\ assignedTo = [s \in Steps |-> NoUser]
    /\ created = {}
    /\ evals = 1
    /\ thread = [s \in Steps |-> "none"]
    /\ closing = FALSE
    /\ recovery = [on |-> FALSE, todo |-> {}]
    /\ faults = 0

Fault == faults < MaxFaults /\ faults' = faults + 1

-----------------------------------------------------------------------------
(* Evaluation.                                                             *)

\* The sets of steps whose guards may hold, as the case data has it.
Guards == {h \in SUBSET Steps : Steps \ wf.conditional \subseteq h}

\* Steps that became active are dispatched once the evaluation has committed.
Dispatch(t) ==
    [s \in Steps |-> IF t[s] = "active" /\ state[s] # "active" THEN "running" ELSE thread[s]]

evaluateDAG ==
    /\ evals > 0
    /\ status # "cancelled"
    /\ evals' = evals - 1
    /\ \E holds \in Guards, t \in Reachable(state) :
          /\ IsEvaluation(wf.graph, state, outcome, holds, t)
          /\ state' = t
          /\ thread' = Dispatch(t)
    /\ UNCHANGED <<wf, status, outcome, retryCount, taskVars, closing, recovery, faults>>

\* Mutant: the evaluation of a cancelled case is put back.
EvaluateCancelled_PutBack ==
    /\ evals > 0
    /\ status = "cancelled"
    /\ UNCHANGED vars

EvaluateCancelled ==
    /\ evals > 0
    /\ status = "cancelled"
    /\ evals' = evals - 1
    /\ UNCHANGED <<wf, status, stepVars, taskVars, thread, closing, recovery, faults>>

\* A database error, a deadlock victim, a guard that does not evaluate, a
\* request context that ended: the transaction is rolled back and nobody
\* looks at the error.
EvaluateFails ==
    /\ evals > 0
    /\ Fault
    /\ evals' = evals - 1
    /\ UNCHANGED <<wf, status, stepVars, taskVars, thread, closing, recovery>>

-----------------------------------------------------------------------------
(* The transactions that end a step.                                       *)

\* Mutant: the UPDATE has no condition on the state.
EndIfActive_Unguarded(s, to) == [state EXCEPT ![s] = to]

\* UPDATE case_steps SET state = ... WHERE ... AND state = 'active'.
EndIfActive(s, to) == IF state[s] = "active" THEN [state EXCEPT ![s] = to] ELSE state

triggerEvaluation == evals' = evals + 1

TriggerUnlessCancelled == IF status = "cancelled" THEN UNCHANGED evals ELSE triggerEvaluation

\* ErrStepNotActive when no row was updated: nothing is recorded or triggered.
completeStep(s, o) ==
    \/ /\ state[s] = "active"
       /\ state' = [state EXCEPT ![s] = "completed"]
       /\ outcome' = [outcome EXCEPT ![s] = o]
       /\ TriggerUnlessCancelled
    \/ /\ state[s] # "active"
       /\ UNCHANGED <<state, outcome, evals>>

\* Whether a row was updated is not looked at.
failStep(s) ==
    /\ state' = EndIfActive(s, "failed")
    /\ UNCHANGED outcome
    /\ TriggerUnlessCancelled

skipStepTerminal(s) ==
    /\ state' = EndIfActive(s, "skipped")
    /\ UNCHANGED outcome

-----------------------------------------------------------------------------
(* The execution of a step: executeWithRetry.                              *)

GoTo(s, pc) == thread' = [thread EXCEPT ![s] = pc]

ExecuteSucceeds(s, o) ==
    /\ thread[s] = "running"
    /\ wf.type[s] # "human_task"
    /\ completeStep(s, o)
    /\ GoTo(s, "none")
    /\ UNCHANGED <<wf, status, retryCount, taskVars, closing, recovery, faults>>

\* The UPDATE has no condition on the state of the step.
CreateTaskFromActivation(s) ==
    /\ state' = [state EXCEPT ![s] = "active"]
    /\ assignedTo' = [assignedTo EXCEPT ![s] = wf.assignTo[s]]
    /\ created' = created \cup {s}

\* The executor of human tasks, and that of agents when confidence is low,
\* create a task and return ErrStepAwaitingReview.
ExecuteAwaitsReview(s) ==
    /\ thread[s] = "running"
    /\ wf.type[s] \in {"human_task", "agent"}
    /\ CreateTaskFromActivation(s)
    /\ GoTo(s, "none")
    /\ UNCHANGED <<wf, status, outcome, retryCount, evals, closing, recovery, faults>>

\* The agent's task is created and the audit event that follows it is not.
ReviewEventFails(s) ==
    /\ thread[s] = "running"
    /\ wf.type[s] = "agent"
    /\ Fault
    /\ CreateTaskFromActivation(s)
    /\ GoTo(s, "errored")
    /\ UNCHANGED <<wf, status, outcome, retryCount, evals, closing, recovery>>

\* Mutant: one attempt too many.
ExecuteFails_OneMore(s) ==
    /\ thread[s] \in {"running", "errored"}
    /\ \/ /\ state[s] = "active"
          /\ retryCount' = [retryCount EXCEPT ![s] = @ + 1]
          /\ GoTo(s, IF retryCount'[s] <= wf.maxAttempts[s] THEN "running" ELSE "exhausted")
       \/ /\ state[s] # "active"
          /\ GoTo(s, "none")
          /\ UNCHANGED retryCount
    /\ UNCHANGED <<wf, status, state, outcome, taskVars, evals, closing, recovery, faults>>

\* Execute returned an error: incrementRetryCount, then another attempt.
ExecuteFails(s) ==
    /\ thread[s] \in {"running", "errored"}
    /\ \/ /\ state[s] = "active"
          /\ retryCount' = [retryCount EXCEPT ![s] = @ + 1]
          /\ GoTo(s, IF retryCount'[s] < wf.maxAttempts[s] THEN "running" ELSE "exhausted")
       \/ /\ state[s] # "active"
          /\ GoTo(s, "none")
          /\ UNCHANGED retryCount
    /\ UNCHANGED <<wf, status, state, outcome, taskVars, evals, closing, recovery, faults>>

\* Mutant: the policy "skip" is not known.
onExhausted_NoSkip(s) ==
    /\ thread[s] = "exhausted"
    /\ \/ wf.onExhausted[s] = "fail" /\ failStep(s) /\ GoTo(s, "none")
       \/ wf.onExhausted[s] \in Steps /\ failStep(s) /\ GoTo(s, "fallback")
    /\ UNCHANGED <<wf, status, retryCount, taskVars, closing, recovery, faults>>

\* Mutant: nothing is triggered after the step was skipped.
onExhausted_NoTrigger(s) ==
    /\ thread[s] = "exhausted"
    /\ \/ wf.onExhausted[s] = "skip" /\ skipStepTerminal(s) /\ UNCHANGED evals /\ GoTo(s, "none")
       \/ wf.onExhausted[s] = "fail" /\ failStep(s) /\ GoTo(s, "none")
       \/ wf.onExhausted[s] \in Steps /\ failStep(s) /\ GoTo(s, "fallback")
    /\ UNCHANGED <<wf, status, retryCount, taskVars, closing, recovery, faults>>

onExhausted(s) ==
    /\ thread[s] = "exhausted"
    /\ \/ wf.onExhausted[s] = "skip" /\ skipStepTerminal(s) /\ triggerEvaluation /\ GoTo(s, "none")
       \/ wf.onExhausted[s] = "fail" /\ failStep(s) /\ GoTo(s, "none")
       \/ wf.onExhausted[s] \in Steps /\ failStep(s) /\ GoTo(s, "fallback")
    /\ UNCHANGED <<wf, status, retryCount, taskVars, closing, recovery, faults>>

\* Mutant: the fallback step is dispatched right away.
activateFallbackStep_Dispatched(s) ==
    /\ thread[s] = "fallback"
    /\ LET target == wf.onExhausted[s] IN
          /\ state' = IF state[target] = "pending" THEN [state EXCEPT ![target] = "ready"] ELSE state
          /\ thread' = [thread EXCEPT ![s] = "none", ![target] = "running"]
    /\ triggerEvaluation
    /\ UNCHANGED <<wf, status, outcome, retryCount, taskVars, closing, recovery, faults>>

\* The fallback step is made ready if it is pending still; onExhausted then
\* triggers an evaluation, which activates it.
activateFallbackStep(s) ==
    /\ thread[s] = "fallback"
    /\ LET target == wf.onExhausted[s] IN
          state' = IF state[target] = "pending" THEN [state EXCEPT ![target] = "ready"] ELSE state
    /\ triggerEvaluation
    /\ GoTo(s, "none")
    /\ UNCHANGED <<wf, status, outcome, retryCount, taskVars, closing, recovery, faults>>

\* An error of one of these transactions: dispatchStep ignores what
\* executeWithRetry returns.
ExecutionLost(s) ==
    /\ thread[s] # "none"
    /\ Fault
    /\ GoTo(s, "none")
    /\ UNCHANGED <<wf, status, stepVars, taskVars, evals, closing, recovery>>

-----------------------------------------------------------------------------
(* What users do to tasks and cases.                                       *)

\* metadata.role is empty until the task has been created.
ClaimTask(u, s) ==
    /\ state[s] = "active"
    /\ assignedTo[s] = NoUser
    /\ s \in created => u \in wf.role[s]
    /\ assignedTo' = [assignedTo EXCEPT ![s] = u]
    /\ UNCHANGED <<wf, status, stepVars, created, evals, thread, closing, recovery, faults>>

\* The keys of the outcomes in the workflow, or those that were written with
\* the task.  CompleteTask reads the task before its transaction, and so
\* possibly before the task was created.
TaskOutcomes(s) == wf.keys[s] \cup (IF s \in created THEN wf.reviewKeys[s] ELSE {})

CompleteTask(u, s, o) ==
    /\ state[s] = "active"
    /\ assignedTo[s] = u
    /\ o \in TaskOutcomes(s)
    /\ state' = [state EXCEPT ![s] = "completed"]
    /\ outcome' = [outcome EXCEPT ![s] = o]
    /\ triggerEvaluation
    /\ UNCHANGED <<wf, status, retryCount, taskVars, thread, closing, recovery, faults>>

ReassignTask(u, s) ==
    /\ state[s] = "active"
    /\ assignedTo' = [assignedTo EXCEPT ![s] = u]
    /\ UNCHANGED <<wf, status, stepVars, created, evals, thread, closing, recovery, faults>>

\* Mutant: only pending steps are skipped.
cancelCase_OnlyPending ==
    /\ status' = "cancelled"
    /\ state' = [s \in Steps |-> IF \/ state[s] = "pending"
                                    \/ state[s] = "active" /\ wf.type[s] = "human_task"
                                 THEN "skipped" ELSE state[s]]
    /\ UNCHANGED <<wf, outcome, retryCount, taskVars, evals, thread, closing, recovery, faults>>

\* Mutant: the steps take the name of the state of the case.
cancelCase_Named ==
    /\ status' = "cancelled"
    /\ state' = [s \in Steps |-> IF IsOpen(state[s]) THEN "cancelled" ELSE state[s]]
    /\ UNCHANGED <<wf, outcome, retryCount, taskVars, evals, thread, closing, recovery, faults>>

cancelCase ==
    /\ status' = "cancelled"
    /\ state' = [s \in Steps |-> IF \/ IsOpen(state[s])
                                    \/ state[s] = "active" /\ wf.type[s] = "human_task"
                                 THEN "skipped" ELSE state[s]]
    /\ UNCHANGED <<wf, outcome, retryCount, taskVars, evals, thread, closing, recovery, faults>>

\* CloseCase counts the active steps before its transaction begins.
CloseCaseChecks ==
    /\ ~ closing
    /\ \A s \in Steps : state[s] # "active"
    /\ closing' = TRUE
    /\ UNCHANGED <<wf, status, stepVars, taskVars, evals, thread, recovery, faults>>

CloseCaseCommits ==
    /\ closing
    /\ status' = "completed"
    /\ closing' = FALSE
    /\ UNCHANGED <<wf, stepVars, taskVars, evals, thread, recovery, faults>>

-----------------------------------------------------------------------------
(* Crash and recovery.                                                     *)

ActiveSteps == {s \in Steps : state[s] = "active"}

\* The process stops and another starts, which calls Recover: it looks at the
\* case only if it has active steps and is not cancelled.
Crash ==
    /\ Fault
    /\ evals' = 0
    /\ thread' = [s \in Steps |-> "none"]
    /\ closing' = FALSE
    /\ recovery' = IF status # "cancelled" /\ ActiveSteps # {}
                   THEN [on |-> TRUE, todo |-> ActiveSteps] ELSE [on |-> FALSE, todo |-> {}]
    /\ UNCHANGED <<wf, status, stepVars, taskVars>>

Redispatched(s) ==
    \/ wf.type[s] = "rule"
    \/ wf.type[s] = "integration" /\ s \in wf.idempotent

\* recoverCase, for one of the steps it found active.  The result of a step is
\* '{}' from the start and so never empty: agents are never dispatched again.
recoverStep(s) ==
    /\ s \in recovery.todo
    /\ recovery' = [recovery EXCEPT !.todo = @ \ {s}]
    /\ \/ Redispatched(s) /\ GoTo(s, "running") /\ UNCHANGED <<state, outcome, evals>>
       \/ wf.type[s] = "human_task" /\ UNCHANGED <<state, outcome, evals, thread>>
       \/ wf.type[s] = "agent" /\ completeStep(s, NoOutcome) /\ UNCHANGED thread
       \/ /\ wf.type[s] = "integration" /\ s \notin wf.idempotent
          /\ failStep(s) /\ UNCHANGED thread
    /\ UNCHANGED <<wf, status, retryCount, taskVars, closing, faults>>

recoverCaseEnds ==
    /\ recovery.on /\ recovery.todo = {}
    /\ recovery' = [recovery EXCEPT !.on = FALSE]
    /\ triggerEvaluation
    /\ UNCHANGED <<wf, status, stepVars, taskVars, thread, closing, faults>>

-----------------------------------------------------------------------------
Outcomes == OutcomeNames \cup {NoOutcome}

Evaluation == evaluateDAG \/ EvaluateCancelled

Execution(s) ==
    \/ \E o \in Outcomes : ExecuteSucceeds(s, o)
    \/ ExecuteAwaitsReview(s)
    \/ ExecuteFails(s)
    \/ onExhausted(s)
    \/ activateFallbackStep(s)

Recovery == recoverCaseEnds \/ \E s \in Steps : recoverStep(s)

UserActions ==
    \/ \E u \in Users, s \in Steps :
          \/ ClaimTask(u, s)
          \/ ReassignTask(u, s)
          \/ \E o \in OutcomeNames : CompleteTask(u, s, o)
    \/ cancelCase
    \/ CloseCaseChecks
    \/ CloseCaseCommits

Faulty == Crash \/ EvaluateFails \/ \E s \in Steps : ReviewEventFails(s) \/ ExecutionLost(s)

Next == Evaluation \/ (\E s \in Steps : Execution(s)) \/ Recovery \/ UserActions \/ Faulty

Spec == Init /\ [][Next]_vars

\* Goroutines run and executors return; users need not act and nothing has to
\* fail.
Fairness ==
    /\ WF_vars(Evaluation)
    /\ \A s \in Steps : WF_vars(Execution(s))
    /\ WF_vars(Recovery)

FairSpec == Spec /\ Fairness
-----------------------------------------------------------------------------
\* The columns and the state in memory keep their types; no transaction writes a
\* step state the evaluation does not know.
TypeOK ==
    /\ wf \in Workflows
    /\ status \in {"open", "completed", "cancelled"}
    /\ state \in [Steps -> StepStates]
    /\ outcome \in [Steps -> Outcomes]
    /\ retryCount \in [Steps -> Nat]
    /\ assignedTo \in [Steps -> Users \cup {NoUser}]
    /\ created \subseteq Steps
    /\ evals \in Nat
    /\ thread \in [Steps -> {"none", "running", "errored", "exhausted", "fallback"}]
    /\ closing \in BOOLEAN
    /\ recovery \in [on : BOOLEAN, todo : SUBSET Steps]
    /\ faults \in Nat

\* Steps that no task is ever created for: the engine alone moves them.
IsAutomated(s) == wf.type[s] \in {"rule", "integration"}

\* As long as nothing crashes or fails, progress is never lost: whatever may
\* have made a step ready, skipped or active has triggered an evaluation that
\* is still to run.  Every transaction that ends a step relies on it.
NoLostEvaluation == faults = 0 => evals > 0 \/ IsClosed(wf.graph, state, outcome)

\* A cancelled case has no step an evaluation could start, so neither a late
\* evaluation nor closing the case afterwards starts one.
CancelledHasNothingOpen ==
    status = "cancelled" => \A s \in Steps : ~ IsOpen(state[s])

\* "Retries are bounded": a step is tried max_attempts times, and once more
\* for each crash that cuts its last attempt short, since the count survives.
RetriesBounded == \A s \in Steps : retryCount[s] <= wf.maxAttempts[s] + faults

\* Executions belong to steps an evaluation has activated.
ExecutedWasActivated == \A s \in Steps : thread[s] # "none" => ~ IsOpen(state[s])

IsFallback(s) == \E x \in Steps : wf.onExhausted[x] = s

\* A step with join "all" that got past pending, other than by being skipped
\* or as a fallback, got there after all its automated predecessors ended.
JoinAllWaits ==
    \A s \in Steps :
        (wf.graph.join[s] = "all" /\ ~ IsFallback(s) /\ state[s] \in {"active", "completed", "failed"})
            => \A d \in wf.graph.dependsOn[s] : IsAutomated(d) => isTerminal(state[d])

Forward(from, to) ==
    \/ from = to
    \/ IsOpen(from) /\ to # "pending"
    \/ from = "active" /\ isTerminal(to)

\* "Step state transitions are forward-only", for the automated steps: through
\* retries, crashes, recovery, cancellation and closing none goes back, and
\* none leaves a terminal state.
AutomatedForwardOnly ==
    [][\A s \in Steps : IsAutomated(s) => Forward(state[s], state'[s])]_vars

\* Without faults, automated steps do not stay active: an executor's answer, or
\* the exhaustion of its retries, ends the step.
AutomatedStepsEnd ==
    \A s \in Steps : (state[s] = "active" /\ IsAutomated(s)) ~> isTerminal(state[s])

\* Without faults the engine comes to rest: all that is left waits for users.
EngineSettles == <>[](evals = 0 /\ \A s \in Steps : thread[s] = "none")

-----------------------------------------------------------------------------
(* What the documentation says of the engine, and the code does not do.    *)

\* "After completion, it is completed and never changes": a step that is
\* completed stays completed.
CompletedIsFinal == [][\A s \in Steps : state[s] = "completed" => state'[s] = "completed"]_vars

\* "Once cancelled, no new steps activate".
NoActivationAfterCancel ==
    [][\A s \in Steps : (status = "cancelled" /\ state'[s] = "active") => state[s] = "active"]_vars

AtRest == evals = 0 /\ ~ recovery.on /\ \A s \in Steps : thread[s] = "none"

\* "On restart, the engine resumes from exactly where it left off": when the
\* engine has nothing more to run, no step is left that it should have moved.
ResumesAfterRestart == AtRest => IsClosed(wf.graph, state, outcome)

\* "On restart, resumes incomplete executions from their exact state": a step
\* completes because its executor returned or its assignee completed it.
CompletedByExecution ==
    [][\A s \in Steps : (state[s] = "active" /\ state'[s] = "completed")
                            => thread[s] = "running" \/ assignedTo[s] # NoUser]_vars

\* "cannot close case with active steps".
ClosedHasNoActiveStep == status = "completed" => ActiveSteps = {}

=============================================================================
