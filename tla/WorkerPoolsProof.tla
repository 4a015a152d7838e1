-------------------------- MODULE WorkerPoolsProof --------------------------
(***************************************************************************)
(* Slots and evaluations of the two pools, for every set of cases and      *)
(* steps and every size of the pools.                                      *)
(***************************************************************************)
EXTENDS WorkerPools, FiniteSetTheorems, TLAPS

\* A step that waits to be dispatched is active, and waits in one evaluation
\* only; an execution that has not ended has asked for no evaluation.  Without
\* this a goroutine could take a slot for a step that holds one already.
Waiting ==
    /\ \A e \in Evaluations : \A s \in toDispatch[e] : step[s] = "active"
    /\ \A e, f \in Evaluations : e # f => toDispatch[e] \cap toDispatch[f] = {}
    /\ \A e \in Evaluations : evaluation[e] # "dispatching" => toDispatch[e] = {}
    /\ \A s \in Steps : step[s] # "ended" => evaluation[s] = "none"

Inv == TypeOK /\ Waiting /\ SlotsAreHeld /\ NoStepForgotten

\* Sets of steps are finite, and one more or one less step is one more or one
\* less slot.
LEMMA Counting ==
    ASSUME NEW S \in SUBSET Steps
    PROVE  /\ Cardinality(S) \in Nat
           /\ \A s \in Steps \ S : Cardinality(S \cup {s}) = Cardinality(S) + 1
           /\ \A s \in S : Cardinality(S \ {s}) = Cardinality(S) - 1
           /\ S # {} => Cardinality(S) >= 1
<1>1. IsFiniteSet(S)
  BY PoolsAssumption, FS_Subset
<1>2. Cardinality(S) \in Nat
  BY <1>1, FS_CardinalityType
<1>3. \A s \in Steps \ S : Cardinality(S \cup {s}) = Cardinality(S) + 1
  BY <1>1, FS_AddElement
<1>4. \A s \in S : Cardinality(S \ {s}) = Cardinality(S) - 1
  BY <1>1, FS_RemoveElement
<1>5. S # {} => Cardinality(S) >= 1
  BY <1>1, <1>2, FS_EmptySet
<1> QED
  BY <1>2, <1>3, <1>4, <1>5

\* At the start both pools are empty.
LEMMA InvInit == Init => Inv
<1> SUFFICES ASSUME Init PROVE Inv
  OBVIOUS
<1>1. TypeOK /\ Waiting
  BY PoolsAssumption DEF Init, TypeOK, Waiting, StepStates, Evaluations
<1>2. Executing = {} /\ Evaluating = {}
  BY DEF Init, Executing, Evaluating, Evaluations
<1>3. SlotsAreHeld
  BY <1>2, FS_EmptySet, PoolsAssumption DEF Init, SlotsAreHeld
<1>4. NoStepForgotten
  BY PoolsAssumption DEF Init, NoStepForgotten
<1> QED
  BY <1>1, <1>3, <1>4 DEF Inv

\* Types, and where steps wait, are kept by every step.
LEMMA WaitingStep == Inv /\ [Next]_vars => TypeOK' /\ Waiting'
<1> SUFFICES ASSUME Inv, [Next]_vars PROVE TypeOK' /\ Waiting'
  OBVIOUS
<1> USE DEF Inv, StepStates, Evaluations
<1>1. ASSUME NEW c \in Cases, CreateCase(c) PROVE TypeOK' /\ Waiting'
  BY <1>1, PoolsAssumption DEF CreateCase, TypeOK, Waiting
<1>2. ASSUME NEW e \in Evaluations, evaluateDAG(e) PROVE TypeOK' /\ Waiting'
  BY <1>2 DEF evaluateDAG, TypeOK, Waiting
<1>3. ASSUME NEW e \in Evaluations, NEW s \in Steps, dispatchStep(e, s)
      PROVE  TypeOK' /\ Waiting'
  BY <1>3 DEF dispatchStep, TypeOK, Waiting
<1>4. ASSUME NEW e \in Evaluations, EvaluationReturns(e) PROVE TypeOK' /\ Waiting'
  <2>1. e \in Steps => evaluationSem >= 1
    <3> SUFFICES ASSUME e \in Steps PROVE evaluationSem >= 1
      OBVIOUS
    <3>1. e \in Evaluating
      BY <1>4 DEF EvaluationReturns, Evaluating
    <3>2. Evaluating \in SUBSET Steps
      BY DEF Evaluating
    <3>3. Cardinality(Evaluating) >= 1
      BY <3>1, <3>2, Counting
    <3> QED
      BY <3>3 DEF SlotsAreHeld
  <2> QED
    BY <1>4, <2>1 DEF EvaluationReturns, TypeOK, Waiting
<1>5. ASSUME NEW s \in Steps, Execute(s) PROVE TypeOK' /\ Waiting'
  <2>1. executionSem >= 1
    <3>1. s \in Executing
      BY <1>5 DEF Execute, executeWithRetry, AwaitReview, triggerEvaluation, Executing
    <3>2. Executing \in SUBSET Steps
      BY DEF Executing
    <3>3. Cardinality(Executing) >= 1
      BY <3>1, <3>2, Counting
    <3> QED
      BY <3>3 DEF SlotsAreHeld
  <2>2. CASE executeWithRetry(s)
    BY <2>2 DEF executeWithRetry, TypeOK, Waiting
  <2>3. CASE AwaitReview(s)
    BY <2>1, <2>3 DEF AwaitReview, TypeOK, Waiting
  <2>4. CASE triggerEvaluation(s)
    BY <2>1, <2>4 DEF triggerEvaluation, TypeOK, Waiting
  <2> QED
    BY <1>5, <2>2, <2>3, <2>4 DEF Execute
<1>6. CASE UNCHANGED vars
  BY <1>6 DEF vars, TypeOK, Waiting
<1> QED
  BY <1>1, <1>2, <1>3, <1>4, <1>5, <1>6 DEF Next, Evaluate, Idle

\* Every step that takes or gives back a slot changes the set of goroutines that
\* hold one by exactly the goroutine it is about.
LEMMA SlotsStep == Inv /\ [Next]_vars => SlotsAreHeld'
<1> SUFFICES ASSUME Inv, [Next]_vars PROVE SlotsAreHeld'
  OBVIOUS
<1> /\ Executing \in SUBSET Steps
    /\ Evaluating \in SUBSET Steps
  BY DEF Executing, Evaluating
<1> /\ MaxConcurrentSteps \in Nat
    /\ MaxConcurrentEvaluations \in Nat
  BY PoolsAssumption
<1> USE DEF Inv
<1>1. ASSUME NEW c \in Cases, CreateCase(c) PROVE SlotsAreHeld'
  <2>1. Executing' = Executing /\ Evaluating' = Evaluating
    BY <1>1, PoolsAssumption DEF CreateCase, Executing, Evaluating, TypeOK, Evaluations
  <2> QED
    BY <1>1, <2>1 DEF CreateCase, SlotsAreHeld
<1>2. ASSUME NEW e \in Evaluations, evaluateDAG(e) PROVE SlotsAreHeld'
  <2>1. Executing' = Executing /\ Evaluating' = Evaluating
    BY <1>2 DEF evaluateDAG, Executing, Evaluating, TypeOK, Evaluations
  <2> QED
    BY <1>2, <2>1 DEF evaluateDAG, SlotsAreHeld
<1>3. ASSUME NEW e \in Evaluations, NEW s \in Steps, dispatchStep(e, s)
      PROVE  SlotsAreHeld'
  <2>1. step[s] = "active"
    BY <1>3 DEF dispatchStep, Waiting
  <2>2. s \notin Executing /\ Executing' = Executing \cup {s}
    BY <1>3, <2>1 DEF dispatchStep, Executing, TypeOK
  <2>3. Evaluating' = Evaluating
    BY <1>3 DEF dispatchStep, Evaluating
  <2>4. Cardinality(Executing') = Cardinality(Executing) + 1
    BY <2>2, Counting
  <2> QED
    BY <1>3, <2>3, <2>4 DEF dispatchStep, SlotsAreHeld, TypeOK
<1>4. ASSUME NEW e \in Evaluations, EvaluationReturns(e) PROVE SlotsAreHeld'
  <2>1. Executing' = Executing
    BY <1>4 DEF EvaluationReturns, Executing
  <2>2. CASE e \in Steps
    <3>1. e \in Evaluating /\ Evaluating' = Evaluating \ {e}
      BY <1>4, <2>2 DEF EvaluationReturns, Evaluating, TypeOK, Evaluations
    <3>2. Cardinality(Evaluating') = Cardinality(Evaluating) - 1
      BY <3>1, Counting
    <3> QED
      BY <1>4, <2>1, <2>2, <3>2 DEF EvaluationReturns, SlotsAreHeld, TypeOK
  <2>3. CASE e \notin Steps
    <3>1. Evaluating' = Evaluating
      BY <1>4, <2>3 DEF EvaluationReturns, Evaluating, TypeOK, Evaluations
    <3> QED
      BY <1>4, <2>1, <2>3, <3>1 DEF EvaluationReturns, SlotsAreHeld
  <2> QED
    BY <2>2, <2>3
<1>5. ASSUME NEW s \in Steps, executeWithRetry(s) PROVE SlotsAreHeld'
  <2>1. Executing' = Executing /\ Evaluating' = Evaluating
    BY <1>5 DEF executeWithRetry, Executing, Evaluating, TypeOK
  <2> QED
    BY <1>5, <2>1 DEF executeWithRetry, SlotsAreHeld
<1>6. ASSUME NEW s \in Steps, AwaitReview(s) PROVE SlotsAreHeld'
  <2>1. s \in Executing /\ Executing' = Executing \ {s} /\ Evaluating' = Evaluating
    BY <1>6 DEF AwaitReview, Executing, Evaluating, TypeOK
  <2>2. Cardinality(Executing') = Cardinality(Executing) - 1
    BY <2>1, Counting
  <2> QED
    BY <1>6, <2>1, <2>2 DEF AwaitReview, SlotsAreHeld, TypeOK
<1>7. ASSUME NEW s \in Steps, triggerEvaluation(s) PROVE SlotsAreHeld'
  <2>1. s \in Executing /\ Executing' = Executing \ {s}
    BY <1>7 DEF triggerEvaluation, Executing, TypeOK
  <2>2. evaluation[s] = "none"
    BY <1>7 DEF triggerEvaluation, Waiting
  <2>3. s \notin Evaluating /\ Evaluating' = Evaluating \cup {s}
    BY <1>7, <2>2 DEF triggerEvaluation, Evaluating, TypeOK, Evaluations
  <2>4. /\ Cardinality(Executing') = Cardinality(Executing) - 1
        /\ Cardinality(Evaluating') = Cardinality(Evaluating) + 1
    BY <2>1, <2>3, Counting
  <2> QED
    BY <1>7, <2>4 DEF triggerEvaluation, SlotsAreHeld, TypeOK
<1>8. CASE UNCHANGED vars
  BY <1>8 DEF vars, SlotsAreHeld, Executing, Evaluating
<1> QED
  BY <1>1, <1>2, <1>3, <1>4, <1>5, <1>6, <1>7, <1>8 DEF Next, Evaluate, Execute, Idle

\* The last execution a step waits for asks for an evaluation before it lets go
\* of the step, and an evaluation activates all that can start.
LEMMA ForgottenStep == Inv /\ [Next]_vars => NoStepForgotten'
<1> SUFFICES ASSUME Inv, [Next]_vars, NEW s \in Steps,
                    step'[s] = "pending", Deps[s] # {},
                    \A p \in Deps[s] : step'[p] \in {"triggering", "ended"},
                    \A p \in Deps[s] : step'[p] # "triggering"
             PROVE  \E e \in Evaluations :
                        CaseOfEvaluation(e) = CaseOf[s] /\ evaluation'[e] = "running"
  BY DEF NoStepForgotten
<1> Deps[s] \in SUBSET Steps /\ \A p \in Deps[s] : CaseOf[p] = CaseOf[s]
  BY PoolsAssumption
<1> USE DEF Inv, Evaluations
<1>1. ASSUME NEW c \in Cases, CreateCase(c)
      PROVE  \E e \in Evaluations :
                 CaseOfEvaluation(e) = CaseOf[s] /\ evaluation'[e] = "running"
  BY <1>1 DEF CreateCase, TypeOK, NoStepForgotten
<1>2. ASSUME NEW f \in Evaluations, evaluateDAG(f)
      PROVE  \E e \in Evaluations :
                 CaseOfEvaluation(e) = CaseOf[s] /\ evaluation'[e] = "running"
  <2>1. step[s] = "pending" /\ \A p \in Deps[s] : step[p] = step'[p]
    BY <1>2 DEF evaluateDAG, TypeOK
  <2>2. CaseOfEvaluation(f) # CaseOf[s]
    BY <1>2, <2>1 DEF evaluateDAG, TypeOK
  <2>3. PICK e \in Evaluations : CaseOfEvaluation(e) = CaseOf[s] /\ evaluation[e] = "running"
    BY <2>1 DEF NoStepForgotten
  <2>4. e # f
    BY <2>2, <2>3
  <2>5. evaluation'[e] = "running"
    BY <1>2, <2>3, <2>4 DEF evaluateDAG, TypeOK
  <2> QED
    BY <2>3, <2>5
<1>3. ASSUME NEW f \in Evaluations, NEW t \in Steps, dispatchStep(f, t)
      PROVE  \E e \in Evaluations :
                 CaseOfEvaluation(e) = CaseOf[s] /\ evaluation'[e] = "running"
  BY <1>3 DEF dispatchStep, TypeOK, NoStepForgotten
<1>4. ASSUME NEW f \in Evaluations, EvaluationReturns(f)
      PROVE  \E e \in Evaluations :
                 CaseOfEvaluation(e) = CaseOf[s] /\ evaluation'[e] = "running"
  BY <1>4 DEF EvaluationReturns, TypeOK, NoStepForgotten
<1>5. ASSUME NEW t \in Steps, executeWithRetry(t) \/ AwaitReview(t)
      PROVE  \E e \in Evaluations :
                 CaseOfEvaluation(e) = CaseOf[s] /\ evaluation'[e] = "running"
  BY <1>5 DEF executeWithRetry, AwaitReview, TypeOK, NoStepForgotten
<1>6. ASSUME NEW t \in Steps, triggerEvaluation(t)
      PROVE  \E e \in Evaluations :
                 CaseOfEvaluation(e) = CaseOf[s] /\ evaluation'[e] = "running"
  <2>1. CASE t \in Deps[s]
    <3>1. CaseOfEvaluation(t) = CaseOf[s]
      BY <2>1, PoolsAssumption DEF CaseOfEvaluation
    <3> QED
      BY <1>6, <3>1 DEF triggerEvaluation, TypeOK
  <2>2. CASE t \notin Deps[s]
    BY <1>6, <2>2 DEF triggerEvaluation, TypeOK, NoStepForgotten
  <2> QED
    BY <2>1, <2>2
<1>7. CASE UNCHANGED vars
  BY <1>7 DEF vars, NoStepForgotten
<1> QED
  BY <1>1, <1>2, <1>3, <1>4, <1>5, <1>6, <1>7 DEF Next, Evaluate, Execute, Idle

\* The invariant holds throughout.
LEMMA Invariance == Spec => []Inv
<1>1. Inv /\ [Next]_vars => Inv'
  BY WaitingStep, SlotsStep, ForgottenStep DEF Inv
<1> QED
  BY InvInit, <1>1, PTL DEF Spec

\* The semaphores of both pools count the goroutines that hold a slot, for
\* every size of the pools: Submit and its deferred release lose none.
THEOREM SlotsAreNeverLost == Spec => []SlotsAreHeld
<1>1. Inv => SlotsAreHeld
  BY DEF Inv
<1> QED
  BY Invariance, <1>1, PTL

\* However long Submit blocks, the evaluation that a step waits for is asked
\* for: the circular wait of the pools delays evaluations and drops none.
THEOREM EvaluationsAreNotDropped == Spec => []NoStepForgotten
<1>1. Inv => NoStepForgotten
  BY DEF Inv
<1> QED
  BY Invariance, <1>1, PTL
=============================================================================
