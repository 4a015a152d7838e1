---------------------------- MODULE WorkerPools ----------------------------
(***************************************************************************)
(* The two bounded goroutine pools of the engine and how they wait for one *)
(* another.  An evaluation of a case dispatches the steps it activated to  *)
(* the pool of executions; an execution that ends triggers an evaluation   *)
(* in the pool of evaluations.  Submit blocks while its pool is full, and  *)
(* the goroutine that calls it keeps its own slot meanwhile.               *)
(*                                                                         *)
(* The steps here are automated ones; module Engine has what an evaluation *)
(* and an execution do to a case.  The first evaluation of a case runs in  *)
(* the goroutine of the request, outside the pool.                         *)
(***************************************************************************)
EXTENDS Integers, FiniteSets

CONSTANTS
    Cases,
    Steps,
    CaseOf,                     \* the case of each step
    Deps,                       \* the steps each step depends on
    MaxConcurrentSteps,
    MaxConcurrentEvaluations

ASSUME PoolsAssumption ==
    /\ IsFiniteSet(Steps)
    /\ Cases \cap Steps = {}
    /\ CaseOf \in [Steps -> Cases]
    /\ Deps \in [Steps -> SUBSET Steps]
    /\ \A s \in Steps : \A p \in Deps[s] : CaseOf[p] = CaseOf[s]
    /\ MaxConcurrentSteps \in Nat \ {0}
    /\ MaxConcurrentEvaluations \in Nat \ {0}

\* An evaluation is named after the execution, or the request, that asked for it.
Evaluations == Cases \cup Steps

VARIABLES
    step,           \* where each step is
    evaluation,     \* where each evaluation is
    toDispatch,     \* the steps an evaluation still has to dispatch
    executionSem,   \* occupancy of the channel sem of the pool of executions
    evaluationSem   \* and of the pool of evaluations

vars == <<step, evaluation, toDispatch, executionSem, evaluationSem>>

\* "triggering": the result is committed, and the goroutine calls
\* triggerEvaluation.  "review": the executor handed the step to a human.
StepStates == {"pending", "active", "executing", "triggering", "ended", "review"}

CaseOfEvaluation(e) == IF e \in Cases THEN e ELSE CaseOf[e]

Init ==
    /\ step = [s \in Steps |-> "pending"]
    /\ evaluation = [e \in Evaluations |-> "none"]
    /\ toDispatch = [e \in Evaluations |-> {}]
    /\ executionSem = 0
    /\ evaluationSem = 0

\* The request that creates a case evaluates it.
CreateCase(c) ==
    /\ evaluation[c] = "none"
    /\ evaluation' = [evaluation EXCEPT ![c] = "running"]
    /\ UNCHANGED <<step, toDispatch, executionSem, evaluationSem>>


\* The transaction of an evaluation: it activates what can start.
evaluateDAG(e) ==
    LET ready == {s \in Steps : /\ CaseOf[s] = CaseOfEvaluation(e)
                                /\ step[s] = "pending"
                                /\ \A p \in Deps[s] : step[p] \in {"triggering", "ended"}}
    IN  /\ evaluation[e] = "running"
        /\ step' = [s \in Steps |-> IF s \in ready THEN "active" ELSE step[s]]
        /\ toDispatch' = [toDispatch EXCEPT ![e] = ready]
        /\ evaluation' = [evaluation EXCEPT ![e] = "dispatching"]
        /\ UNCHANGED <<executionSem, evaluationSem>>

\* executions.Submit, called by an evaluation for one step after the other.
dispatchStep(e, s) ==
    /\ evaluation[e] = "dispatching"
    /\ s \in toDispatch[e]
    /\ executionSem < MaxConcurrentSteps
    /\ executionSem' = executionSem + 1
    /\ toDispatch' = [toDispatch EXCEPT ![e] = @ \ {s}]
    /\ step' = [step EXCEPT ![s] = "executing"]
    /\ UNCHANGED <<evaluation, evaluationSem>>

\* An evaluation returns; one of the pool gives its slot back.
EvaluationReturns(e) ==
    /\ evaluation[e] = "dispatching"
    /\ toDispatch[e] = {}
    /\ evaluation' = [evaluation EXCEPT ![e] = "returned"]
    /\ evaluationSem' = IF e \in Steps THEN evaluationSem - 1 ELSE evaluationSem
    /\ UNCHANGED <<step, toDispatch, executionSem>>

\* An execution commits its result.
executeWithRetry(s) ==
    /\ step[s] = "executing"
    /\ step' = [step EXCEPT ![s] = "triggering"]
    /\ UNCHANGED <<evaluation, toDispatch, executionSem, evaluationSem>>

\* Mutant: the early return gives its slot back, and the deferred call again.
AwaitReview_Twice(s) ==
    /\ step[s] = "executing"
    /\ step' = [step EXCEPT ![s] = "review"]
    /\ executionSem' = executionSem - 2
    /\ UNCHANGED <<evaluation, toDispatch, evaluationSem>>

\* Mutant: the early return keeps its slot.
AwaitReview_KeepsSlot(s) ==
    /\ step[s] = "executing"
    /\ step' = [step EXCEPT ![s] = "review"]
    /\ UNCHANGED <<evaluation, toDispatch, executionSem, evaluationSem>>

\* An execution returns ErrStepAwaitingReview: no result, and no evaluation.
AwaitReview(s) ==
    /\ step[s] = "executing"
    /\ step' = [step EXCEPT ![s] = "review"]
    /\ executionSem' = executionSem - 1
    /\ UNCHANGED <<evaluation, toDispatch, evaluationSem>>

\* Mutant: the evaluation is dropped instead of waiting for a slot.
triggerEvaluation_Dropped(s) ==
    /\ step[s] = "triggering"
    /\ executionSem' = executionSem - 1
    /\ step' = [step EXCEPT ![s] = "ended"]
    /\ IF evaluationSem < MaxConcurrentEvaluations
       THEN /\ evaluationSem' = evaluationSem + 1
            /\ evaluation' = [evaluation EXCEPT ![s] = "running"]
       ELSE UNCHANGED <<evaluation, evaluationSem>>
    /\ UNCHANGED toDispatch

\* evaluations.Submit, called by an execution, which then returns.
triggerEvaluation(s) ==
    /\ step[s] = "triggering"
    /\ evaluationSem < MaxConcurrentEvaluations
    /\ evaluationSem' = evaluationSem + 1
    /\ executionSem' = executionSem - 1
    /\ step' = [step EXCEPT ![s] = "ended"]
    /\ evaluation' = [evaluation EXCEPT ![s] = "running"]
    /\ UNCHANGED toDispatch

\* Nothing is left to do: no goroutine is running or waiting.
Idle ==
    /\ \A c \in Cases : evaluation[c] = "returned"
    /\ \A e \in Evaluations : evaluation[e] \in {"none", "returned"}
    /\ \A s \in Steps : step[s] \notin {"executing", "triggering"}
    /\ UNCHANGED vars

Evaluate(e) ==
    evaluateDAG(e) \/ EvaluationReturns(e) \/ \E s \in Steps : dispatchStep(e, s)

Execute(s) == executeWithRetry(s) \/ AwaitReview(s) \/ triggerEvaluation(s)

Next ==
    \/ \E c \in Cases : CreateCase(c)
    \/ \E e \in Evaluations : Evaluate(e)
    \/ \E s \in Steps : Execute(s)
    \/ Idle

Spec == Init /\ [][Next]_vars

\* Goroutines that can run do run, executions end, and a goroutine blocked on a
\* channel gets its turn in order of arrival.
FairSpec ==
    /\ Spec
    /\ \A e \in Evaluations :
          /\ WF_vars(evaluateDAG(e) \/ EvaluationReturns(e))
          /\ SF_vars(\E s \in Steps : dispatchStep(e, s))
    /\ \A s \in Steps :
          /\ WF_vars(executeWithRetry(s) \/ AwaitReview(s))
          /\ SF_vars(triggerEvaluation(s))
-----------------------------------------------------------------------------
Executing == {s \in Steps : step[s] \in {"executing", "triggering"}}

Evaluating == {s \in Steps : evaluation[s] \in {"running", "dispatching"}}

\* Every variable has its type.
TypeOK ==
    /\ step \in [Steps -> StepStates]
    /\ evaluation \in [Evaluations -> {"none", "running", "dispatching", "returned"}]
    /\ toDispatch \in [Evaluations -> SUBSET Steps]
    /\ executionSem \in Nat
    /\ evaluationSem \in Nat

\* The slots of both pools are held by live goroutines, one each, and by no
\* others: none leaks on an early return and no pool exceeds its size.
SlotsAreHeld ==
    /\ executionSem = Cardinality(Executing)
    /\ evaluationSem = Cardinality(Evaluating)
    /\ executionSem <= MaxConcurrentSteps
    /\ evaluationSem <= MaxConcurrentEvaluations

\* A step that can start is not forgotten: until it is activated, an evaluation
\* of its case is still to come, whatever the pools make it wait for.
NoStepForgotten ==
    \A s \in Steps :
        ( /\ step[s] = "pending"
          /\ Deps[s] # {}
          /\ \A p \in Deps[s] : step[p] \in {"triggering", "ended"} ) =>
        \/ \E p \in Deps[s] : step[p] = "triggering"
        \/ \E e \in Evaluations : CaseOfEvaluation(e) = CaseOf[s] /\ evaluation[e] = "running"

\* "Dispatches to workers - steps execute in a configurable worker pool": a
\* step that an evaluation activated is executed.
DispatchedExecutes ==
    \A s \in Steps : (step[s] = "active") ~> (step[s] \in {"ended", "review"})
=============================================================================
