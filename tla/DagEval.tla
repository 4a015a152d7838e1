------------------------------ MODULE DagEval ------------------------------
(***************************************************************************)
(* What one evaluation of a workflow graph decides: the states the steps   *)
(* of a case have once computeTransitions (internal/engine/compute.go) has *)
(* found nothing more to do and its transitions are applied.               *)
(*                                                                         *)
(* The code reaches that valuation by passes over the steps until a pass   *)
(* changes nothing.  Here it is described by what it satisfies: every step *)
(* is where the rules put it, given where the rules put its predecessors.  *)
(* Module DagLoop has the passes, and checks the two against each other.   *)
(*                                                                         *)
(* A workflow is a record of functions on its steps.  A valuation v gives  *)
(* each step its state, out gives a completed step the outcome in its      *)
(* result, and holds is the set of steps whose guard evaluates to true (a  *)
(* step without a condition always holds).                                 *)
(***************************************************************************)
EXTENDS Naturals, FiniteSets

CONSTANTS
    Steps,          \* step ids
    OutcomeNames,   \* keys of the outcome maps
    NoOutcome       \* a result without an outcome

StepStates == {"pending", "ready", "active", "completed", "failed", "skipped"}

isTerminal(st) == st \in {"completed", "failed", "skipped"}

\* Pending and ready steps are the ones an evaluation may move.
IsOpen(st) == st \in {"pending", "ready"}

Graph == [dependsOn : [Steps -> SUBSET Steps],
          join      : [Steps -> {"all", "any"}],
          outcomes  : [Steps -> [OutcomeNames -> SUBSET Steps]]]

AllOutcomeTargets(g, s) == UNION {g.outcomes[s][o] : o \in OutcomeNames}

Allowed(g, s, outcome) ==
    {x \in AllOutcomeTargets(g, s) : outcome \in OutcomeNames /\ x \in g.outcomes[s][outcome]}

\* A completed predecessor of s names s among its outcome targets, and not
\* for the outcome it has.
Excluded(g, v, out, s) ==
    \E d \in g.dependsOn[s] :
        /\ v[d] = "completed"
        /\ s \in AllOutcomeTargets(g, d) \ Allowed(g, d, out[d])

\* Mutant: a join does not wait for all of its steps.
DependenciesSatisfied_Eager(g, v, s) ==
    \/ g.dependsOn[s] = {}
    \/ /\ g.join[s] = "all"
       /\ \E d \in g.dependsOn[s] : v[d] = "completed"
    \/ /\ g.join[s] = "any"
       /\ \E d \in g.dependsOn[s] : isTerminal(v[d])

\* The pass over pending steps finds s ready.
DependenciesSatisfied(g, v, s) ==
    \/ g.dependsOn[s] = {}
    \/ /\ g.join[s] = "all"
       /\ \A d \in g.dependsOn[s] : isTerminal(v[d])
       /\ \E d \in g.dependsOn[s] : v[d] = "completed"
    \/ /\ g.join[s] = "any"
       /\ \E d \in g.dependsOn[s] : isTerminal(v[d])

SkipPropagates(g, v, s) ==
    /\ g.dependsOn[s] # {}
    /\ g.join[s] = "all"
    /\ \A d \in g.dependsOn[s] : v[d] = "skipped"

\* Where the rules put step s, which is at v[s], when they put the others at t.
Target(g, v, out, holds, t, s) ==
    IF ~ IsOpen(v[s]) THEN v[s]
    ELSE IF Excluded(g, v, out, s) THEN "skipped"
    ELSE IF v[s] = "ready" \/ DependenciesSatisfied(g, t, s)
         THEN IF s \in holds THEN "active" ELSE "skipped"
    ELSE IF SkipPropagates(g, t, s) THEN "skipped"
    ELSE "pending"

\* t is the result of evaluating g at v.
IsEvaluation(g, v, out, holds, t) ==
    \A s \in Steps : t[s] = Target(g, v, out, holds, t, s)

\* The valuations that can be a result of an evaluation at v.
Reachable(v) ==
    {[s \in Steps |-> IF IsOpen(v[s]) THEN choice[s] ELSE v[s]] :
        choice \in [{s \in Steps : IsOpen(v[s])} -> {"pending", "active", "skipped"}]}

\* Nothing is left for an evaluation to do.
IsClosed(g, v, out) ==
    \A s \in Steps :
        /\ v[s] # "ready"
        /\ v[s] = "pending" =>
              /\ ~ Excluded(g, v, out, s)
              /\ ~ DependenciesSatisfied(g, v, s)
              /\ ~ SkipPropagates(g, v, s)
=============================================================================
