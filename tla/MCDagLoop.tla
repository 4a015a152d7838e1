----------------------------- MODULE MCDagLoop -----------------------------
(* Every acyclic workflow of three steps with labelled edges, at every      *)
(* combination of step states.                                              *)
EXTENDS DagLoop

CONSTANTS a, b, c, yes, no

MCSteps == {a, b, c}

MCOrder == <<a, b, c>>

\* Each dependent of a step is a target of one of its outcomes or of none.
OutcomeMaps(deps) ==
    {[s \in MCSteps |-> [o \in {yes, no} |-> {x \in MCSteps : s \in deps[x] /\ label[<<s, x>>] = o}]] :
        label \in [{<<s, x>> \in MCSteps \X MCSteps : s \in deps[x]} -> {yes, no, NoOutcome}]}

Joins(deps) == {j \in [MCSteps -> {"all", "any"}] : \A s \in MCSteps : deps[s] = {} => j[s] = "all"}

Plain(deps) ==
    [dependsOn |-> deps, join |-> [s \in MCSteps |-> "all"],
     outcomes |-> [s \in MCSteps |-> [o \in {yes, no} |-> {}]]]

AllDeps == [MCSteps -> SUBSET MCSteps]

Dags == {deps \in AllDeps : IsAcyclic(Plain(deps))}

Workflows(deps) ==
    {[dependsOn |-> deps, join |-> j, outcomes |-> o] : j \in Joins(deps), o \in OutcomeMaps(deps)}

\* The result of b has no outcome, the others have "yes".
OutcomeOf(s) == IF s = b THEN NoOutcome ELSE yes

Input(graph, states, false) ==
    [graph |-> graph, states |-> states, out |-> [s \in MCSteps |-> OutcomeOf(s)],
     holds |-> MCSteps \ false]

\* Acyclic: some step is open, at most one is ready (an evaluation leaves none,
\* a fallback makes one) and at most one guard of an open step is false.
\* Cyclic: rejected before anything but the dependencies is looked at.
Init ==
    /\ \/ \E deps \in Dags :
          \E graph \in Workflows(deps), states \in [MCSteps -> StepStates], false \in SUBSET MCSteps :
            /\ Cardinality(false) <= 1
            /\ \A s \in false : IsOpen(states[s])
            /\ \E s \in MCSteps : IsOpen(states[s])
            /\ Cardinality({s \in MCSteps : states[s] = "ready"}) <= 1
            /\ input = Input(graph, states, false)
       \/ \E deps \in AllDeps \ Dags :
            input = Input(Plain(deps), [s \in MCSteps |-> "pending"], {})
    /\ output = NotEvaluated

Spec == Init /\ [][Next]_vars
=============================================================================
