--------------------------- MODULE MCWorkerPools ---------------------------
(* Two cases: in one, two steps follow a first one; the other is a single step. *)
EXTENDS WorkerPools, TLC

CONSTANTS k1, k2, a, b, c, d

MCSteps == {a, b, c, d}

MCCaseOf == [s \in MCSteps |-> IF s \in {a, b, c} THEN k1 ELSE k2]

MCDeps == [s \in MCSteps |-> IF s \in {b, c} THEN {a} ELSE {}]
=============================================================================
