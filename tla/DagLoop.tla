------------------------------ MODULE DagLoop ------------------------------
(***************************************************************************)
(* The algorithm of computeTransitions (internal/engine/compute.go), pass  *)
(* by pass, and applyTransitionTx (internal/engine/engine.go), for every   *)
(* small workflow and every combination of step states.                    *)
(***************************************************************************)
EXTENDS DagEval, Sequences, SequencesExt

CONSTANT Order      \* ast.Steps: the steps in the order of the workflow file

VARIABLES input, output

vars == <<input, output>>

Transition(s, from, to, type) == [step |-> s, from |-> from, to |-> to, type |-> type]

\* The locals of computeTransitions: virtual, transitions, seen and changed.
Locals(v) == [virtual |-> v, transitions |-> <<>>, seen |-> {}, changed |-> FALSE]

\* Mutant: the state a transition starts from is not kept.
Move_NoFrom(l, s, to, type) ==
    IF <<s, type>> \in l.seen THEN l
    ELSE [virtual     |-> [l.virtual EXCEPT ![s] = to],
          transitions |-> Append(l.transitions, Transition(s, "pending", to, type)),
          seen        |-> l.seen \cup {<<s, type>>},
          changed     |-> TRUE]

\* if !seen[key] { ... append ...; virtual[s] = to; changed = true }
Move(l, s, to, type) ==
    IF <<s, type>> \in l.seen THEN l
    ELSE [virtual     |-> [l.virtual EXCEPT ![s] = to],
          transitions |-> Append(l.transitions, Transition(s, l.virtual[s], to, type)),
          seen        |-> l.seen \cup {<<s, type>>},
          changed     |-> TRUE]

\* Mutant: outcome routing also drops the steps of the selected outcome.
OutcomeStep_AllTargets(in, l, source) ==
    IF l.virtual[source] # "completed" THEN l
    ELSE FoldLeft(LAMBDA m, s :
                      IF /\ source \in in.graph.dependsOn[s]
                         /\ s \in AllOutcomeTargets(in.graph, source)
                         /\ IsOpen(m.virtual[s])
                      THEN Move(m, s, "skipped", "to_skipped") ELSE m,
                  l, Order)

\* Outcome routing from one completed step to its dependents.
OutcomeStep(in, l, source) ==
    IF l.virtual[source] # "completed" THEN l
    ELSE FoldLeft(LAMBDA m, s :
                      IF /\ source \in in.graph.dependsOn[s]
                         /\ s \in AllOutcomeTargets(in.graph, source)
                         /\ s \notin Allowed(in.graph, source, in.out[source])
                         /\ IsOpen(m.virtual[s])
                      THEN Move(m, s, "skipped", "to_skipped") ELSE m,
                  l, Order)

PendingStep(in, l, s) ==
    LET deps == in.graph.dependsOn[s]
        Count(P(_)) == Cardinality({d \in deps : P(l.virtual[d])})
        terminalCount  == Count(isTerminal)
        completedCount == Count(LAMBDA st : st = "completed")
        skippedCount   == Count(LAMBDA st : st = "skipped")
        allTerminal    == terminalCount = Cardinality(deps)
    IN CASE l.virtual[s] # "pending" -> l
         [] l.virtual[s] = "pending" /\ deps = {} -> Move(l, s, "ready", "to_ready")
         [] l.virtual[s] = "pending" /\ deps # {} /\ in.graph.join[s] = "all" ->
              IF allTerminal /\ completedCount > 0 THEN Move(l, s, "ready", "to_ready")
              ELSE IF allTerminal /\ skippedCount = Cardinality(deps)
                   THEN Move(l, s, "skipped", "to_skipped")
              ELSE l
         [] l.virtual[s] = "pending" /\ deps # {} /\ in.graph.join[s] = "any" ->
              IF terminalCount > 0 THEN Move(l, s, "ready", "to_ready") ELSE l

ReadyStep(in, l, s) ==
    IF l.virtual[s] # "ready" THEN l
    ELSE IF s \notin in.holds THEN Move(l, s, "skipped", "to_skipped")
    ELSE Move(l, s, "active", "to_active")

Pass(in, l) ==
    LET l1 == FoldLeft(LAMBDA m, s : OutcomeStep(in, m, s), [l EXCEPT !.changed = FALSE], Order)
        l2 == FoldLeft(LAMBDA m, s : PendingStep(in, m, s), l1, Order)
    IN  FoldLeft(LAMBDA m, s : ReadyStep(in, m, s), l2, Order)

\* Mutant: one pass, without repeating it until nothing changes.
Passes_Once(in, l) == Pass(in, l)

RECURSIVE Passes(_, _)

\* for { changed := false; ...; if !changed { break } }
Passes(in, l) ==
    LET next == Pass(in, l) IN IF next.changed THEN Passes(in, next) ELSE next

computeTransitions(in) == Passes(in, Locals(in.states)).transitions

-----------------------------------------------------------------------------
\* Mutant: a step on the current path counts as visited.
AlreadyVisited_OnPath(colour) == [stop |-> colour # 0, cycle |-> FALSE]

\* 0: not seen, 1: on the path of the search, 2: done.
AlreadyVisited(colour) == [stop |-> colour # 0, cycle |-> colour = 1]

RECURSIVE visit(_, _, _)

\* The depth-first search of ValidateAST: st has the colours and the error.
visit(graph, st, id) ==
    IF st.err THEN st
    ELSE IF AlreadyVisited(st.colour[id]).stop
         THEN [st EXCEPT !.err = AlreadyVisited(st.colour[id]).cycle]
    ELSE LET deps == SelectSeq(Order, LAMBDA d : d \in graph.dependsOn[id])
             in  == [st EXCEPT !.colour[id] = 1]
             out == FoldLeft(LAMBDA m, d : visit(graph, m, d), in, deps)
         IN  IF out.err THEN out ELSE [out EXCEPT !.colour[id] = 2]

\* TRUE when ValidateAST returns an error.
ValidateAST(graph) ==
    FoldLeft(LAMBDA m, s : visit(graph, m, s),
             [colour |-> [s \in Steps |-> 0], err |-> FALSE], Order).err

\* The UPDATE of one transition, with the state its WHERE clause asks for.
applyTransitionTx(v, tr) ==
    LET from == CASE tr.type = "to_ready"   -> {tr.from}
                  [] tr.type = "to_skipped" -> {"pending", "ready"}
                  [] tr.type = "to_active"  -> {"ready"}
    IN IF v[tr.step] \in from THEN [v EXCEPT ![tr.step] = tr.to] ELSE v

ApplyAll(v, transitions) == FoldLeft(applyTransitionTx, v, transitions)

-----------------------------------------------------------------------------
NotEvaluated == [done |-> FALSE, err |-> FALSE]

Reject ==
    /\ ~ output.done /\ ~ output.err
    /\ ValidateAST(input.graph)
    /\ output' = [output EXCEPT !.err = TRUE]
    /\ UNCHANGED input

Evaluate ==
    /\ ~ output.done /\ ~ output.err
    /\ ~ ValidateAST(input.graph)
    /\ LET transitions == computeTransitions(input) IN
          output' = [done        |-> TRUE,
                     err         |-> FALSE,
                     transitions |-> transitions,
                     states      |-> ApplyAll(input.states, transitions)]
    /\ UNCHANGED input

Next == Evaluate \/ Reject

-----------------------------------------------------------------------------
\* The transitions, applied one by one with the guards of their UPDATEs, put
\* every step where the rules of DagEval put it, and only one such valuation
\* exists: the order of the steps in the file does not matter.
LoopIsClosure ==
    output.done =>
        {t \in Reachable(input.states) :
            IsEvaluation(input.graph, input.states, input.out, input.holds, t)} = {output.states}

\* One evaluation is enough: a second one right after it would do nothing,
\* so a trigger per terminal step loses no progress.
OneEvaluationSuffices ==
    output.done => IsClosed(input.graph, output.states, input.out)

\* No UPDATE of the evaluation misses its row: each transition starts from the
\* state the ones before it left, so the audit event written with it is true
\* and no step is dispatched that was not made active.
TransitionsAreExact ==
    output.done =>
        \A i \in DOMAIN output.transitions :
            ApplyAll(input.states, SubSeq(output.transitions, 1, i - 1))[output.transitions[i].step]
                = output.transitions[i].from

IsAcyclic(graph) ==
    \E rank \in [Steps -> 1..Len(Order)] :
        \A s \in Steps : \A d \in graph.dependsOn[s] : rank[d] < rank[s]

\* ValidateAST lets a workflow pass exactly when its dependencies have no
\* cycle; the passes of computeTransitions never run on one that has.
CyclesRejected ==
    /\ output.err => ~ IsAcyclic(input.graph)
    /\ output.done => IsAcyclic(input.graph)
=============================================================================
