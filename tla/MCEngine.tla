------------------------------ MODULE MCEngine ------------------------------
(* Small workflows for the engine. *)
EXTENDS Engine, TLC

CONSTANTS a, b, c, u1, u2, yes, no

MCSteps == {a, b, c}

MCOutcomeNames == {yes, no}

NoTargets == [o \in MCOutcomeNames |-> {}]

\* A workflow with the defaults of the code for what is not said.
Default ==
    [graph |-> [dependsOn |-> [s \in MCSteps |-> {}], join |-> [s \in MCSteps |-> "all"],
                outcomes |-> [s \in MCSteps |-> NoTargets]],
     type |-> [s \in MCSteps |-> "rule"], idempotent |-> {}, conditional |-> {},
     maxAttempts |-> [s \in MCSteps |-> 1], onExhausted |-> [s \in MCSteps |-> "fail"],
     keys |-> [s \in MCSteps |-> {}], reviewKeys |-> [s \in MCSteps |-> {}],
     assignTo |-> [s \in MCSteps |-> NoUser], role |-> [s \in MCSteps |-> {u1, u2}]]

\* A rule, then a human decision, then an integration if the answer is yes.
Approval ==
    [Default EXCEPT !.graph.dependsOn = (a :> {} @@ b :> {a} @@ c :> {b}),
                    !.graph.outcomes[b] = (yes :> {c} @@ no :> {}),
                    !.type[b] = "human_task", !.keys[b] = {yes, no}, !.role[b] = {u1},
                    !.type[c] = "integration", !.maxAttempts[c] = 2]

\* Two parallel steps, one guarded and one retried and then skipped, joined.
\* The retried one has an outcome, so that a user may claim and complete it.
Parallel ==
    [Default EXCEPT !.graph.dependsOn[c] = {a, b}, !.conditional = {b},
                    !.type[a] = "integration", !.idempotent = {a},
                    !.graph.outcomes[a] = (yes :> {c} @@ no :> {}), !.keys[a] = {yes},
                    !.maxAttempts[a] = 2, !.onExhausted[a] = "skip"]

\* An agent whose answer selects one of two steps.
Routing ==
    [Default EXCEPT !.graph.dependsOn = (a :> {} @@ b :> {a} @@ c :> {a}),
                    !.graph.outcomes[a] = (yes :> {b} @@ no :> {c}),
                    !.type[a] = "agent", !.keys[a] = {yes}, !.reviewKeys[a] = {no}, !.assignTo[a] = u1,
                    !.type[b] = "integration"]

\* A step with a fallback that other paths reach too.
Fallback ==
    [Default EXCEPT !.graph.dependsOn = (a :> {} @@ b :> {a} @@ c :> {b}),
                    !.graph.join[c] = "any", !.onExhausted[a] = c,
                    !.type[a] = "integration", !.type[c] = "agent"]

OnlyApproval == {Approval}

MCWorkflows == {Approval, Parallel, Routing, Fallback}
=============================================================================
