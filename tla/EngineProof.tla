---------------------------- MODULE EngineProof ----------------------------
(***************************************************************************)
(* Theorems about module Engine, for every set of workflows, any number of *)
(* steps and users, and any number of crashes and errors.                  *)
(***************************************************************************)
EXTENDS Engine, TLAPS

-----------------------------------------------------------------------------
(* What an evaluation decides.                                             *)

\* An evaluation completes and uncompletes no step.
LEMMA EvaluationKeepsCompleted ==
    ASSUME NEW g, NEW v, NEW out, NEW holds, NEW t,
           IsEvaluation(g, v, out, holds, t),
           NEW s \in Steps
    PROVE  t[s] = "completed" <=> v[s] = "completed"
BY DEF IsEvaluation, Target, IsOpen

\* After an evaluation none is needed: its result is closed.
LEMMA EvaluationCloses ==
    ASSUME NEW g \in Graph, NEW v, NEW out, NEW holds, NEW t,
           IsEvaluation(g, v, out, holds, t)
    PROVE  IsClosed(g, t, out)
<1> SUFFICES ASSUME NEW s \in Steps
             PROVE  /\ t[s] # "ready"
                    /\ t[s] = "pending" =>
                          /\ ~ Excluded(g, t, out, s)
                          /\ ~ DependenciesSatisfied(g, t, s)
                          /\ ~ SkipPropagates(g, t, s)
  BY DEF IsClosed
<1>1. t[s] = Target(g, v, out, holds, t, s)
  BY DEF IsEvaluation
<1>2. g.dependsOn[s] \subseteq Steps
  BY DEF Graph
<1>3. Excluded(g, t, out, s) <=> Excluded(g, v, out, s)
  BY <1>2, EvaluationKeepsCompleted DEF Excluded
<1> QED
  BY <1>1, <1>3 DEF Target, IsOpen

\* Making a step active enables nothing for an evaluation.
LEMMA ActivationKeepsClosed ==
    ASSUME NEW g \in Graph, NEW v \in [Steps -> StepStates], NEW out, NEW s \in Steps,
           IsClosed(g, v, out)
    PROVE  IsClosed(g, [v EXCEPT ![s] = "active"], out)
<1> DEFINE w == [v EXCEPT ![s] = "active"]
<1> SUFFICES ASSUME NEW x \in Steps
             PROVE  /\ w[x] # "ready"
                    /\ w[x] = "pending" =>
                          /\ ~ Excluded(g, w, out, x)
                          /\ ~ DependenciesSatisfied(g, w, x)
                          /\ ~ SkipPropagates(g, w, x)
  BY DEF IsClosed
<1>1. g.dependsOn[x] \subseteq Steps
  BY DEF Graph
<1>2. \A d \in Steps : w[d] = "active" \/ w[d] = v[d]
  OBVIOUS
<1> HIDE DEF w
<1>3. \A d \in Steps : isTerminal(w[d]) => w[d] = v[d]
  BY <1>2 DEF isTerminal
<1>4. Excluded(g, w, out, x) => Excluded(g, v, out, x)
  BY <1>1, <1>2 DEF Excluded
<1>5. DependenciesSatisfied(g, w, x) => DependenciesSatisfied(g, v, x)
  BY <1>1, <1>2, <1>3 DEF DependenciesSatisfied, isTerminal
<1>6. SkipPropagates(g, w, x) => SkipPropagates(g, v, x)
  BY <1>1, <1>2 DEF SkipPropagates
<1> QED
  BY <1>2, <1>4, <1>5, <1>6 DEF IsClosed

\* Without open steps there is nothing to evaluate.
LEMMA NothingOpenIsClosed ==
    ASSUME NEW g, NEW v, NEW out, \A s \in Steps : ~ IsOpen(v[s])
    PROVE  IsClosed(g, v, out)
BY DEF IsClosed, IsOpen

\* The candidates for the result of an evaluation are valuations, which differ
\* in open steps only and leave none ready.
LEMMA ReachableType ==
    ASSUME NEW v \in [Steps -> StepStates], NEW t \in Reachable(v)
    PROVE  /\ t \in [Steps -> StepStates]
           /\ \A s \in Steps : IF IsOpen(v[s]) THEN t[s] \in {"pending", "active", "skipped"}
                                               ELSE t[s] = v[s]
BY DEF Reachable, StepStates, IsOpen

\* The workflow of a case is a workflow.
LEMMA WorkflowType ==
    ASSUME TypeOK
    PROVE  /\ wf \in Workflow
           /\ wf.graph \in Graph
BY EngineAssumption DEF TypeOK, Workflow

-----------------------------------------------------------------------------
(* Types.                                                                  *)

\* The case CreateCase leaves behind has the types.
LEMMA TypeInit == Init => TypeOK
<1> SUFFICES ASSUME Init PROVE TypeOK
  OBVIOUS
<1>1. recovery \in [on : BOOLEAN, todo : SUBSET Steps] /\ closing \in BOOLEAN
  BY DEF Init
<1> QED
  BY <1>1 DEF Init, TypeOK, StepStates, Outcomes

\* What the transactions that end a step may write.
LEMMA EndIfActiveType ==
    ASSUME TypeOK, NEW s \in Steps, NEW to \in StepStates
    PROVE  EndIfActive(s, to) \in [Steps -> StepStates]
BY DEF EndIfActive, TypeOK

\* Asking for an evaluation keeps its type.
LEMMA TriggerType ==
    ASSUME TypeOK, TriggerUnlessCancelled \/ triggerEvaluation \/ UNCHANGED evals
    PROVE  evals' \in Nat
BY DEF TypeOK, TriggerUnlessCancelled, triggerEvaluation

\* Completing a step keeps the types.
LEMMA CompleteStepType ==
    ASSUME TypeOK, NEW s \in Steps, NEW o \in Outcomes, completeStep(s, o)
    PROVE  state' \in [Steps -> StepStates] /\ outcome' \in [Steps -> Outcomes] /\ evals' \in Nat
BY TriggerType DEF completeStep, TypeOK, StepStates

\* Failing a step keeps the types.
LEMMA FailStepType ==
    ASSUME TypeOK, NEW s \in Steps, failStep(s)
    PROVE  state' \in [Steps -> StepStates] /\ outcome' \in [Steps -> Outcomes] /\ evals' \in Nat
BY TriggerType, EndIfActiveType DEF failStep, TypeOK, StepStates

\* The steps of the engine, the users and the environment keep the types.
LEMMA TypeStep == TypeOK /\ [Next]_vars => TypeOK'
<1> SUFFICES ASSUME TypeOK, [Next]_vars PROVE TypeOK'
  OBVIOUS
<1>w. wf \in Workflow
  BY WorkflowType
<1>1. CASE evaluateDAG
  <2>1. PICK t \in Reachable(state) : state' = t /\ thread' = Dispatch(t)
    BY <1>1 DEF evaluateDAG
  <2>2. t \in [Steps -> StepStates]
    BY ReachableType DEF TypeOK
  <2>3. thread' \in [Steps -> {"none", "running", "errored", "exhausted", "fallback"}]
    BY <2>1 DEF Dispatch, TypeOK
  <2> QED
    BY <1>1, <2>1, <2>2, <2>3 DEF evaluateDAG, TypeOK, taskVars
<1>2. CASE EvaluateCancelled
  BY <1>2 DEF EvaluateCancelled, TypeOK, taskVars, stepVars
<1>3. CASE EvaluateFails
  BY <1>3 DEF EvaluateFails, Fault, TypeOK, taskVars, stepVars
<1>4. ASSUME NEW s \in Steps, NEW o \in Outcomes, ExecuteSucceeds(s, o) PROVE TypeOK'
  BY <1>4, CompleteStepType DEF ExecuteSucceeds, GoTo, TypeOK, taskVars
<1>5. ASSUME NEW s \in Steps, ExecuteAwaitsReview(s) \/ ReviewEventFails(s) PROVE TypeOK'
  <2>1. assignedTo' \in [Steps -> Users \cup {NoUser}]
    BY <1>w, <1>5 DEF ExecuteAwaitsReview, ReviewEventFails, CreateTaskFromActivation, TypeOK, Workflow
  <2>2. created' \subseteq Steps /\ state' \in [Steps -> StepStates]
    BY <1>5 DEF ExecuteAwaitsReview, ReviewEventFails, CreateTaskFromActivation, TypeOK, StepStates
  <2> QED
    BY <1>5, <2>1, <2>2 DEF ExecuteAwaitsReview, ReviewEventFails, GoTo, Fault, TypeOK
<1>6. ASSUME NEW s \in Steps, ExecuteFails(s) PROVE TypeOK'
  BY <1>6 DEF ExecuteFails, GoTo, TypeOK, taskVars
<1>7. ASSUME NEW s \in Steps, onExhausted(s) PROVE TypeOK'
  <2>1. state' \in [Steps -> StepStates] /\ outcome' \in [Steps -> Outcomes] /\ evals' \in Nat
    BY <1>7, FailStepType, TriggerType, EndIfActiveType
       DEF onExhausted, skipStepTerminal, TypeOK, StepStates
  <2> QED
    BY <1>7, <2>1 DEF onExhausted, GoTo, TypeOK, taskVars
<1>8. ASSUME NEW s \in Steps, activateFallbackStep(s) PROVE TypeOK'
  <2>1. state' \in [Steps -> StepStates]
    BY <1>8 DEF activateFallbackStep, TypeOK, StepStates
  <2> QED
    BY <1>8, <2>1, TriggerType DEF activateFallbackStep, GoTo, TypeOK, taskVars
<1>9. ASSUME NEW s \in Steps, ExecutionLost(s) PROVE TypeOK'
  BY <1>9 DEF ExecutionLost, GoTo, Fault, TypeOK, taskVars, stepVars
<1>10. ASSUME NEW u \in Users, NEW s \in Steps, ClaimTask(u, s) \/ ReassignTask(u, s) PROVE TypeOK'
  BY <1>10 DEF ClaimTask, ReassignTask, TypeOK, stepVars
<1>11. ASSUME NEW u \in Users, NEW s \in Steps, NEW o \in OutcomeNames, CompleteTask(u, s, o)
       PROVE  TypeOK'
  BY <1>11, TriggerType DEF CompleteTask, TypeOK, StepStates, Outcomes, taskVars
<1>12. CASE cancelCase
  BY <1>12 DEF cancelCase, TypeOK, StepStates, taskVars
<1>13. CASE CloseCaseChecks \/ CloseCaseCommits
  <2>1. closing' \in BOOLEAN
    BY <1>13 DEF CloseCaseChecks, CloseCaseCommits
  <2> QED
    BY <1>13, <2>1 DEF CloseCaseChecks, CloseCaseCommits, TypeOK, taskVars, stepVars
<1>14. CASE Crash
  <2>1. recovery' \in [on : BOOLEAN, todo : SUBSET Steps] /\ closing' \in BOOLEAN
    BY <1>14 DEF Crash, ActiveSteps
  <2> QED
    BY <1>14, <2>1 DEF Crash, Fault, TypeOK, taskVars, stepVars
<1>15. ASSUME NEW s \in Steps, recoverStep(s) PROVE TypeOK'
  <2>1. /\ state' \in [Steps -> StepStates] /\ outcome' \in [Steps -> Outcomes] /\ evals' \in Nat
        /\ thread' = thread \/ GoTo(s, "running")
    BY <1>15, FailStepType, CompleteStepType DEF recoverStep, TypeOK, Outcomes
  <2>2. recovery' \in [on : BOOLEAN, todo : SUBSET Steps]
    BY <1>15 DEF recoverStep, TypeOK
  <2> QED
    BY <1>15, <2>1, <2>2 DEF recoverStep, GoTo, TypeOK, taskVars
<1>16. CASE recoverCaseEnds
  BY <1>16, TriggerType DEF recoverCaseEnds, TypeOK, taskVars, stepVars
<1>17. CASE UNCHANGED vars
  BY <1>17 DEF vars, TypeOK, taskVars, stepVars
<1> QED
  BY <1>1, <1>2, <1>3, <1>4, <1>5, <1>6, <1>7, <1>8, <1>9, <1>10, <1>11, <1>12, <1>13, <1>14,
     <1>15, <1>16, <1>17
     DEF Next, Evaluation, Execution, Recovery, UserActions, Faulty

-----------------------------------------------------------------------------
(* Progress is not lost, and a cancelled case has nothing to start.        *)

\* No evaluation starts from a case that has been cancelled, and no other
\* transaction makes a step pending or, unless it was pending, ready.
LEMMA CancelledStep ==
    TypeOK /\ CancelledHasNothingOpen /\ [Next]_vars => CancelledHasNothingOpen'
<1> SUFFICES ASSUME TypeOK, CancelledHasNothingOpen, [Next]_vars, status' = "cancelled"
             PROVE  \A s \in Steps : ~ IsOpen(state'[s])
  BY DEF CancelledHasNothingOpen
<1>1. CASE cancelCase
  BY <1>1 DEF cancelCase, IsOpen, TypeOK
<1>2. CASE ~ cancelCase
  <2>1. status = "cancelled" /\ ~ evaluateDAG
    BY <1>2 DEF Next, Evaluation, Execution, Recovery, UserActions, Faulty, evaluateDAG,
          EvaluateCancelled, EvaluateFails, ExecuteSucceeds, ExecuteAwaitsReview, ReviewEventFails,
          ExecuteFails, onExhausted, activateFallbackStep, ExecutionLost, ClaimTask, ReassignTask,
          CompleteTask, CloseCaseChecks, CloseCaseCommits, Crash, recoverStep, recoverCaseEnds, vars
  <2>2. \A s \in Steps : ~ IsOpen(state[s])
    BY <2>1 DEF CancelledHasNothingOpen
  <2>3. \A s \in Steps, to \in StepStates :
            ~ IsOpen(to) => \A x \in Steps : ~ IsOpen([state EXCEPT ![s] = to][x])
                                           /\ ~ IsOpen(EndIfActive(s, to)[x])
    BY <2>2 DEF TypeOK, EndIfActive
  <2>4. "active" \in StepStates /\ ~ IsOpen("active")
    BY DEF StepStates, IsOpen
  <2>5. \A to \in {"completed", "failed", "skipped"} : to \in StepStates /\ ~ IsOpen(to)
    BY DEF StepStates, IsOpen
  <2>6. ASSUME NEW s \in Steps, CreateTaskFromActivation(s) PROVE \A x \in Steps : ~ IsOpen(state'[x])
    BY <2>3, <2>4, <2>6 DEF CreateTaskFromActivation
  <2>7. ASSUME NEW s \in Steps, NEW o, completeStep(s, o) PROVE \A x \in Steps : ~ IsOpen(state'[x])
    BY <2>2, <2>3, <2>5, <2>7 DEF completeStep
  <2>8. ASSUME NEW s \in Steps, failStep(s) \/ skipStepTerminal(s)
        PROVE  \A x \in Steps : ~ IsOpen(state'[x])
    BY <2>3, <2>5, <2>8 DEF failStep, skipStepTerminal
  <2>9. ASSUME NEW s \in Steps, Execution(s) PROVE \A x \in Steps : ~ IsOpen(state'[x])
    <3>1. ASSUME activateFallbackStep(s) PROVE state' = state
      <4>1. wf.onExhausted[s] \in Steps => state[wf.onExhausted[s]] # "pending"
        BY <2>2 DEF IsOpen
      <4> QED
        BY <3>1, <4>1 DEF activateFallbackStep, TypeOK
    <3> QED
      BY <2>2, <2>6, <2>7, <2>8, <2>9, <3>1
         DEF Execution, ExecuteSucceeds, ExecuteAwaitsReview, ExecuteFails, onExhausted
  <2>10. ASSUME Recovery PROVE \A x \in Steps : ~ IsOpen(state'[x])
    BY <2>2, <2>7, <2>8, <2>10 DEF Recovery, recoverStep, recoverCaseEnds, stepVars
  <2>11. ASSUME NEW u, NEW s \in Steps, NEW o, CompleteTask(u, s, o)
         PROVE \A x \in Steps : ~ IsOpen(state'[x])
    BY <2>3, <2>5, <2>11 DEF CompleteTask
  <2> QED
    BY <1>2, <2>1, <2>2, <2>6, <2>9, <2>10, <2>11
       DEF Next, Evaluation, EvaluateCancelled, UserActions, ClaimTask, ReassignTask,
           CloseCaseChecks, CloseCaseCommits, Faulty, EvaluateFails, ReviewEventFails,
           ExecutionLost, Crash, vars, stepVars
<1> QED
  BY <1>1, <1>2

\* Every transaction that may enable something triggers an evaluation, and an
\* evaluation leaves nothing to do.
LEMMA EvaluationStep ==
    TypeOK /\ CancelledHasNothingOpen /\ NoLostEvaluation /\ [Next]_vars => NoLostEvaluation'
<1> DEFINE Closed == IsClosed(wf.graph, state, outcome)
<1> SUFFICES ASSUME TypeOK, CancelledHasNothingOpen, NoLostEvaluation, [Next]_vars,
                    faults' = 0, ~ (evals' > 0)
             PROVE  Closed'
  BY DEF NoLostEvaluation
<1>t. evals' = 0 /\ evals \in Nat /\ ~ (evals + 1 = 0)
  BY TypeStep DEF TypeOK
<1>w. wf' = wf
  BY DEF Next, Evaluation, Execution, Recovery, UserActions, Faulty, evaluateDAG,
        EvaluateCancelled, EvaluateFails, ExecuteSucceeds, ExecuteAwaitsReview, ReviewEventFails,
        ExecuteFails, onExhausted, activateFallbackStep, ExecutionLost, ClaimTask, ReassignTask,
        CompleteTask, cancelCase, CloseCaseChecks, CloseCaseCommits, Crash, recoverStep,
        recoverCaseEnds, vars
<1>f. ~ Faulty
  BY DEF Faulty, Crash, EvaluateFails, ReviewEventFails, ExecutionLost, Fault, TypeOK
<1>z. faults = 0
  BY <1>f DEF Next, Evaluation, Execution, Recovery, UserActions, evaluateDAG,
        EvaluateCancelled, ExecuteSucceeds, ExecuteAwaitsReview,
        ExecuteFails, onExhausted, activateFallbackStep, ClaimTask, ReassignTask,
        CompleteTask, cancelCase, CloseCaseChecks, CloseCaseCommits, recoverStep,
        recoverCaseEnds, vars
<1>g. wf.graph \in Graph
  BY WorkflowType
<1>c. CASE status' = "cancelled"
  <2>1. \A s \in Steps : ~ IsOpen(state'[s])
    BY <1>c, CancelledStep DEF CancelledHasNothingOpen
  <2> QED
    BY <2>1, NothingOpenIsClosed
<1>n. CASE status' # "cancelled"
  <2>1. CASE evaluateDAG
    <3>1. PICK holds \in Guards, t \in Reachable(state) :
              IsEvaluation(wf.graph, state, outcome, holds, t) /\ state' = t
      BY <2>1 DEF evaluateDAG
    <3>2. outcome' = outcome
      BY <2>1 DEF evaluateDAG
    <3> QED
      BY <1>w, <1>g, <3>1, <3>2, EvaluationCloses
  <2>2. CASE UNCHANGED <<state, outcome, evals>>
    BY <1>t, <1>w, <1>z, <2>2 DEF NoLostEvaluation
  <2>3. ASSUME NEW s \in Steps, ExecuteAwaitsReview(s) PROVE Closed'
    <3>1. Closed
      BY <1>t, <1>z, <2>3 DEF NoLostEvaluation, ExecuteAwaitsReview
    <3> QED
      BY <1>g, <1>w, <2>3, <3>1, ActivationKeepsClosed
         DEF ExecuteAwaitsReview, CreateTaskFromActivation, TypeOK
  <2>4. ~ triggerEvaluation
    BY <1>t DEF triggerEvaluation
  <2>5. ASSUME status' = status, TriggerUnlessCancelled PROVE FALSE
    BY <1>n, <2>4, <2>5 DEF TriggerUnlessCancelled
  <2> QED
    BY <1>f, <1>n, <2>1, <2>2, <2>3, <2>4, <2>5
       DEF Next, Evaluation, EvaluateCancelled, Execution, ExecuteSucceeds, completeStep,
           ExecuteFails, onExhausted, failStep, activateFallbackStep, Recovery, recoverStep,
           recoverCaseEnds, UserActions, ClaimTask, ReassignTask, CompleteTask, cancelCase,
           CloseCaseChecks, CloseCaseCommits, vars, stepVars
<1> QED
  BY <1>c, <1>n

\* The types hold always: no reachable combination of transactions, retries,
\* crashes and user requests writes what another cannot read.
THEOREM EngineTypeCorrect == Spec => []TypeOK
<1>1. Init => TypeOK
  BY TypeInit
<1>2. TypeOK /\ [Next]_vars => TypeOK'
  BY TypeStep
<1> QED
  BY <1>1, <1>2, PTL DEF Spec

\* A case that has been cancelled holds no pending or ready step, however many
\* evaluations were under way.
THEOREM NothingStartsAfterCancel == Spec => []CancelledHasNothingOpen
<1>1. Init => CancelledHasNothingOpen
  BY DEF Init, CancelledHasNothingOpen
<1>2. TypeOK /\ CancelledHasNothingOpen /\ [Next]_vars => CancelledHasNothingOpen'
  BY CancelledStep
<1> QED
  BY <1>1, <1>2, EngineTypeCorrect, PTL DEF Spec

\* Until something crashes or fails, the engine has an evaluation to run
\* whenever an evaluation would change something.
THEOREM ProgressIsNeverLost == Spec => []NoLostEvaluation
<1>1. Init => NoLostEvaluation
  BY DEF Init, NoLostEvaluation
<1>2. TypeOK /\ CancelledHasNothingOpen /\ NoLostEvaluation /\ [Next]_vars => NoLostEvaluation'
  BY EvaluationStep
<1> QED
  BY <1>1, <1>2, EngineTypeCorrect, NothingStartsAfterCancel, PTL DEF Spec

-----------------------------------------------------------------------------
(* Automated steps only go forward.                                        *)

\* An evaluation moves open steps only, and none back.
LEMMA EvaluationForward ==
    ASSUME TypeOK, evaluateDAG, NEW s \in Steps
    PROVE  Forward(state[s], state'[s])
<1>1. PICK holds \in Guards, t \in Reachable(state) :
          IsEvaluation(wf.graph, state, outcome, holds, t) /\ state' = t
  BY DEF evaluateDAG
<1>2. t[s] = Target(wf.graph, state, outcome, holds, t, s)
  BY <1>1 DEF IsEvaluation
<1> QED
  BY <1>1, <1>2 DEF Target, Forward, IsOpen

\* Ending a step that is active is a step forward, and nothing else is ended.
LEMMA EndForward ==
    ASSUME TypeOK, NEW s \in Steps, NEW x \in Steps, NEW to \in {"completed", "failed", "skipped"}
    PROVE  /\ Forward(state[x], EndIfActive(s, to)[x])
           /\ state[s] = "active" => Forward(state[x], [state EXCEPT ![s] = to][x])
BY DEF TypeOK, EndIfActive, Forward, isTerminal

\* No step of the engine takes an automated step of a workflow back.
LEMMA ForwardStep ==
    ASSUME TypeOK, [Next]_vars, NEW x \in Steps, IsAutomated(x)
    PROVE  Forward(state[x], state'[x])
<1>1. CASE UNCHANGED state
  BY <1>1 DEF Forward
<1>2. CASE evaluateDAG
  BY <1>2, EvaluationForward
<1>3. ASSUME NEW s \in Steps, CreateTaskFromActivation(s), wf.type[s] \in {"human_task", "agent"}
      PROVE  Forward(state[x], state'[x])
  BY <1>3 DEF CreateTaskFromActivation, IsAutomated, Forward, TypeOK
<1>4. ASSUME NEW s \in Steps, NEW o, completeStep(s, o) PROVE Forward(state[x], state'[x])
  BY <1>1, <1>4, EndForward DEF completeStep
<1>5. ASSUME NEW s \in Steps, failStep(s) \/ skipStepTerminal(s) PROVE Forward(state[x], state'[x])
  BY <1>5, EndForward DEF failStep, skipStepTerminal
<1>6. ASSUME NEW s \in Steps, activateFallbackStep(s) PROVE Forward(state[x], state'[x])
  BY <1>6 DEF activateFallbackStep, Forward, IsOpen, TypeOK
<1>7. ASSUME NEW u, NEW s \in Steps, NEW o, CompleteTask(u, s, o) PROVE Forward(state[x], state'[x])
  BY <1>7, EndForward DEF CompleteTask
<1>8. CASE cancelCase
  BY <1>8 DEF cancelCase, Forward, IsOpen, isTerminal, TypeOK
<1> QED
  BY <1>1, <1>2, <1>3, <1>4, <1>5, <1>6, <1>7, <1>8
     DEF Next, Evaluation, Execution, Recovery, UserActions, Faulty, EvaluateCancelled,
         EvaluateFails, ExecuteSucceeds, ExecuteAwaitsReview, ReviewEventFails, ExecuteFails,
         onExhausted, ExecutionLost, ClaimTask, ReassignTask, CloseCaseChecks, CloseCaseCommits,
         Crash, recoverStep, recoverCaseEnds, vars, stepVars

\* No automated step ever goes back or leaves a terminal state: not through a
\* retry, a late executor, a recovery, a cancellation or a user's request.
THEOREM AutomatedStepsGoForward == Spec => AutomatedForwardOnly
<1>1. TypeOK /\ [Next]_vars =>
          [\A s \in Steps : IsAutomated(s) => Forward(state[s], state'[s])]_vars
  BY ForwardStep
<1> QED
  BY <1>1, EngineTypeCorrect, PTL DEF Spec, AutomatedForwardOnly

-----------------------------------------------------------------------------
(* Retries are bounded.                                                    *)

\* An attempt under way, or one recovery is going to start, is still within
\* the bound; a step that has not been active has made none.
AttemptsLeft ==
    \A s \in Steps :
        /\ IsOpen(state[s]) => retryCount[s] = 0
        /\ thread[s] \in {"running", "errored"} => retryCount[s] < wf.maxAttempts[s] + faults
        /\ s \in recovery.todo =>
              /\ ~ IsOpen(state[s])
              /\ thread[s] = "none"
              /\ retryCount[s] < wf.maxAttempts[s] + faults

RetryInv == AttemptsLeft /\ RetriesBounded

\* What the counts of attempts are, from the type invariant.
LEMMA RetryTypes ==
    ASSUME TypeOK, NEW s \in Steps
    PROVE  retryCount[s] \in Nat /\ faults \in Nat /\ wf.maxAttempts[s] \in Nat /\ wf.maxAttempts[s] > 0
BY WorkflowType, EngineAssumption DEF TypeOK, Workflow

\* Steps that count no retry and start no execution: all that moves on ends an
\* execution, or lets it fail.
Quiet ==
    /\ retryCount' = retryCount
    /\ wf' = wf
    /\ faults' \in {faults, faults + 1}
    /\ recovery'.todo \subseteq recovery.todo
    /\ \A s \in Steps :
          /\ IsOpen(state'[s]) => IsOpen(state[s])
          /\ \/ thread'[s] = thread[s]
             \/ thread[s] # "none" /\ thread'[s] \in {"none", "exhausted", "fallback"}
             \/ thread[s] = "running" /\ thread'[s] = "errored"

\* A step that counts no retry and starts no execution keeps the bound on retries.
LEMMA QuietStep == TypeOK /\ RetryInv /\ Quiet => RetryInv'
<1> SUFFICES ASSUME TypeOK, RetryInv, Quiet, NEW s \in Steps
             PROVE  /\ IsOpen(state'[s]) => retryCount'[s] = 0
                    /\ thread'[s] \in {"running", "errored"} => retryCount'[s] < wf'.maxAttempts[s] + faults'
                    /\ s \in recovery'.todo =>
                          /\ ~ IsOpen(state'[s])
                          /\ thread'[s] = "none"
                          /\ retryCount'[s] < wf'.maxAttempts[s] + faults'
                    /\ retryCount'[s] <= wf'.maxAttempts[s] + faults'
  BY DEF RetryInv, AttemptsLeft, RetriesBounded
<1>1. retryCount[s] \in Nat /\ faults \in Nat /\ wf.maxAttempts[s] \in Nat
  BY RetryTypes
<1>2. retryCount[s] <= wf.maxAttempts[s] + faults
  BY DEF RetryInv, RetriesBounded
<1>3. s \in recovery'.todo => ~ IsOpen(state'[s]) /\ thread'[s] = "none"
  BY DEF Quiet, RetryInv, AttemptsLeft
<1>4. thread'[s] \in {"running", "errored"} \/ s \in recovery'.todo
          => retryCount[s] < wf.maxAttempts[s] + faults
  BY DEF Quiet, RetryInv, AttemptsLeft
<1>5. IsOpen(state'[s]) => retryCount[s] = 0
  BY DEF Quiet, RetryInv, AttemptsLeft
<1>6. /\ retryCount'[s] = retryCount[s] /\ wf'.maxAttempts[s] = wf.maxAttempts[s]
      /\ faults' \in {faults, faults + 1}
  BY DEF Quiet
<1>7. \/ wf'.maxAttempts[s] + faults' = wf.maxAttempts[s] + faults
      \/ wf'.maxAttempts[s] + faults' = wf.maxAttempts[s] + faults + 1
  BY <1>1, <1>6
<1> QED
  BY <1>1, <1>2, <1>3, <1>4, <1>5, <1>6, <1>7

\* Every action but four is quiet.
LEMMA MostStepsAreQuiet ==
    ASSUME TypeOK, [Next]_vars, ~ evaluateDAG, ~ Crash,
           \A s \in Steps : ~ ExecuteFails(s) /\ ~ recoverStep(s)
    PROVE  Quiet
<1> DEFINE StateQuiet == \A x \in Steps : IsOpen(state'[x]) => IsOpen(state[x])
<1> DEFINE ThreadQuiet == \A x \in Steps :
               \/ thread'[x] = thread[x]
               \/ thread[x] # "none" /\ thread'[x] \in {"none", "exhausted", "fallback"}
               \/ thread[x] = "running" /\ thread'[x] = "errored"
<1>1. ASSUME UNCHANGED state PROVE StateQuiet
  BY <1>1
<1>2. ASSUME NEW s \in Steps, NEW to \in {"active", "completed", "failed", "skipped"},
             state' = [state EXCEPT ![s] = to] \/ state' = EndIfActive(s, to)
      PROVE  StateQuiet
  BY <1>2 DEF TypeOK, EndIfActive, IsOpen
<1>3. ASSUME cancelCase PROVE StateQuiet
  BY <1>3 DEF cancelCase, TypeOK, IsOpen
<1>4. ASSUME NEW s \in Steps, activateFallbackStep(s) PROVE StateQuiet
  BY <1>4 DEF activateFallbackStep, TypeOK, IsOpen
<1>5. StateQuiet
  BY <1>1, <1>2, <1>3, <1>4
     DEF Next, Evaluation, Execution, Recovery, UserActions, Faulty, EvaluateCancelled,
         EvaluateFails, ExecuteSucceeds, completeStep, ExecuteAwaitsReview, ReviewEventFails,
         CreateTaskFromActivation, onExhausted, failStep, skipStepTerminal, ExecutionLost,
         ClaimTask, ReassignTask, CompleteTask, CloseCaseChecks, CloseCaseCommits,
         recoverCaseEnds, vars, stepVars
<1>6. ASSUME NEW s \in Steps, thread[s] # "none", NEW pc \in {"none", "exhausted", "fallback"}, GoTo(s, pc)
      PROVE  ThreadQuiet
  BY <1>6 DEF GoTo, TypeOK
<1>7. ASSUME NEW s \in Steps, ReviewEventFails(s) PROVE ThreadQuiet
  BY <1>7 DEF ReviewEventFails, GoTo, TypeOK
<1>8. ThreadQuiet
  BY <1>6, <1>7
     DEF Next, Evaluation, Execution, Recovery, UserActions, Faulty, EvaluateCancelled,
         EvaluateFails, ExecuteSucceeds, ExecuteAwaitsReview, onExhausted, activateFallbackStep,
         ExecutionLost, ClaimTask, ReassignTask, CompleteTask, cancelCase, CloseCaseChecks,
         CloseCaseCommits, recoverCaseEnds, vars
<1>9. retryCount' = retryCount /\ wf' = wf /\ faults' \in {faults, faults + 1}
  BY DEF Next, Evaluation, Execution, Recovery, UserActions, Faulty, EvaluateCancelled,
         EvaluateFails, ExecuteSucceeds, ExecuteAwaitsReview, ReviewEventFails, onExhausted,
         activateFallbackStep, ExecutionLost, ClaimTask, ReassignTask, CompleteTask, cancelCase,
         CloseCaseChecks, CloseCaseCommits, recoverCaseEnds, Fault, vars, stepVars
<1>10. recovery'.todo \subseteq recovery.todo
  BY DEF Next, Evaluation, Execution, Recovery, UserActions, Faulty, EvaluateCancelled,
         EvaluateFails, ExecuteSucceeds, ExecuteAwaitsReview, ReviewEventFails, onExhausted,
         activateFallbackStep, ExecutionLost, ClaimTask, ReassignTask, CompleteTask, cancelCase,
         CloseCaseChecks, CloseCaseCommits, recoverCaseEnds, TypeOK, vars
<1> QED
  BY <1>5, <1>8, <1>9, <1>10 DEF Quiet

\* An execution starts where no attempt was made, or where recovery finds that
\* the crash left one more; a failed attempt is followed by another only while
\* the count is below max_attempts.
LEMMA RetryStep == TypeOK /\ RetryInv /\ [Next]_vars => RetryInv'
<1> SUFFICES ASSUME TypeOK, RetryInv, [Next]_vars PROVE RetryInv'
  OBVIOUS
<1>t. \A s \in Steps : /\ retryCount[s] \in Nat /\ faults \in Nat /\ wf.maxAttempts[s] \in Nat
                       /\ wf.maxAttempts[s] > 0
  BY RetryTypes
<1>1. CASE evaluateDAG
  <2>1. PICK t \in Reachable(state) : state' = t /\ thread' = Dispatch(t)
    BY <1>1 DEF evaluateDAG
  <2>2. UNCHANGED <<retryCount, wf, faults, recovery>>
    BY <1>1 DEF evaluateDAG
  <2>3. \A s \in Steps : IsOpen(t[s]) => IsOpen(state[s])
    BY ReachableType DEF TypeOK
  <2>4. \A s \in Steps : IsOpen(state[s]) \/ thread'[s] = thread[s]
    BY <2>1, ReachableType DEF Dispatch, TypeOK
  <2>5. \A s \in Steps : IsOpen(state[s]) =>
            retryCount[s] < wf.maxAttempts[s] + faults /\ s \notin recovery.todo
    BY <1>t DEF RetryInv, AttemptsLeft
  <2> QED
    BY <2>1, <2>2, <2>3, <2>4, <2>5 DEF RetryInv, AttemptsLeft, RetriesBounded
<1>2. CASE Crash
  <2>1. /\ UNCHANGED <<retryCount, wf, state>> /\ faults' = faults + 1
        /\ \A s \in Steps : thread'[s] = "none" /\ (s \in recovery'.todo => state[s] = "active")
    BY <1>2 DEF Crash, Fault, ActiveSteps, stepVars
  <2>2. \A s \in Steps : retryCount[s] < wf.maxAttempts[s] + faults'
    BY <1>t, <2>1 DEF RetryInv, RetriesBounded
  <2>3. \A s \in Steps : retryCount[s] <= wf.maxAttempts[s] + faults'
    BY <1>t, <2>1, <2>2
  <2> QED
    BY <2>1, <2>2, <2>3 DEF RetryInv, AttemptsLeft, RetriesBounded, IsOpen
<1>3. ASSUME NEW s \in Steps, ExecuteFails(s) PROVE RetryInv'
  <2>1. UNCHANGED <<wf, state, recovery, faults>> /\ s \notin recovery.todo
    BY <1>3 DEF ExecuteFails, RetryInv, AttemptsLeft
  <2>2. \A x \in Steps \ {s} : retryCount'[x] = retryCount[x] /\ thread'[x] = thread[x]
    BY <1>3 DEF ExecuteFails, GoTo, TypeOK
  <2>3. CASE state[s] = "active"
    <3>1. retryCount'[s] = retryCount[s] + 1 /\ retryCount[s] < wf.maxAttempts[s] + faults
      BY <1>3, <2>3 DEF ExecuteFails, TypeOK, RetryInv, AttemptsLeft
    <3>2. thread'[s] = IF retryCount'[s] < wf.maxAttempts[s] THEN "running" ELSE "exhausted"
      BY <1>3, <2>3 DEF ExecuteFails, GoTo, TypeOK
    <3>3. retryCount'[s] <= wf.maxAttempts[s] + faults
      BY <1>t, <3>1
    <3>4. retryCount'[s] < wf.maxAttempts[s] => retryCount'[s] < wf.maxAttempts[s] + faults
      BY <1>t, <3>1
    <3> QED
      BY <2>1, <2>2, <2>3, <3>2, <3>3, <3>4 DEF RetryInv, AttemptsLeft, RetriesBounded, IsOpen
  <2>4. CASE state[s] # "active"
    <3>1. thread'[s] = "none" /\ retryCount' = retryCount
      BY <1>3, <2>4 DEF ExecuteFails, GoTo, TypeOK
    <3> QED
      BY <2>1, <2>2, <3>1 DEF RetryInv, AttemptsLeft, RetriesBounded
  <2> QED
    BY <2>3, <2>4
<1>4. ASSUME NEW s \in Steps, recoverStep(s) PROVE RetryInv'
  <2>1. /\ UNCHANGED <<wf, retryCount, faults>>
        /\ recovery'.todo = recovery.todo \ {s} /\ s \in recovery.todo
    BY <1>4 DEF recoverStep, TypeOK
  <2>2. \A x \in Steps : IsOpen(state'[x]) => IsOpen(state[x])
    BY <1>4 DEF recoverStep, completeStep, failStep, EndIfActive, TypeOK, IsOpen
  <2>3. \A x \in Steps : thread'[x] = thread[x] \/ x = s
    BY <1>4 DEF recoverStep, GoTo, TypeOK
  <2> QED
    BY <2>1, <2>2, <2>3 DEF RetryInv, AttemptsLeft, RetriesBounded
<1>5. CASE /\ ~ evaluateDAG /\ ~ Crash
           /\ \A s \in Steps : ~ ExecuteFails(s) /\ ~ recoverStep(s)
  BY <1>5, MostStepsAreQuiet, QuietStep
<1> QED
  BY <1>1, <1>2, <1>3, <1>4, <1>5

\* No step is tried more often than its error policy allows, but for one
\* attempt per crash or error of the environment.
THEOREM RetriesAreBounded == Spec => []RetriesBounded
<1>1. Init => RetryInv
  <2> SUFFICES ASSUME Init PROVE RetryInv
    OBVIOUS
  <2>1. \A s \in Steps : wf.maxAttempts[s] \in Nat
    BY TypeInit, RetryTypes
  <2> QED
    BY <2>1 DEF Init, RetryInv, AttemptsLeft, RetriesBounded
<1>2. TypeOK /\ RetryInv /\ [Next]_vars => RetryInv'
  BY RetryStep
<1>3. RetryInv => RetriesBounded
  BY DEF RetryInv
<1> QED
  BY <1>1, <1>2, <1>3, EngineTypeCorrect, PTL DEF Spec
=============================================================================
