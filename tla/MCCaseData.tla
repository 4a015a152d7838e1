----------------------------- MODULE MCCaseData -----------------------------
(* One plain field and an object with two fields. *)
EXTENDS CaseData, TLC

CONSTANTS amount, outcome, note, good, bad, k1, k2, MaxVersion

MCPaths == {amount, outcome, note}

MCKeyOf == (amount :> k1 @@ outcome :> k2 @@ note :> k2)

MCAllowed == [p \in MCPaths |-> IF p = amount THEN {good} ELSE {good, bad}]

MCPatches ==
    {<< >>, amount :> good, amount :> bad, amount :> Null, outcome :> good,
     note :> bad, (outcome :> bad @@ note :> good), (amount :> good @@ outcome :> bad)}

Bounded == version <= MaxVersion
=============================================================================
