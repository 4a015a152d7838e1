------------------------------ MODULE CaseData ------------------------------
(***************************************************************************)
(* The data of one case and its version, and everyone who writes it: users *)
(* through the API, the steps of the workflow, tasks, channels, webhooks   *)
(* and agents.  Each write is one transaction on the row of the case.      *)
(*                                                                         *)
(* JSON objects are functions from paths to leaf values.  A path belongs   *)
(* to a top-level key: what jsonb || replaces as a whole.  Objects nest one*)
(* level, and a key holds an object or a leaf for good.                    *)
(*                                                                         *)
(* The steps and tasks that write are those of module Engine; here any of  *)
(* them may be active at any time.                                         *)
(***************************************************************************)
EXTENDS Integers

CONSTANTS
    Paths,          \* leaf paths
    KeyOf,          \* the top-level key of each path
    DecisionKey,    \* the key task forms are bound to
    Values,
    Absent, Null,
    Required,       \* paths the schema requires
    Allowed,        \* the values the schema allows at each path
    NotManual,      \* paths whose source is "agent" or "external"
    Patches,        \* bodies of requests and outputs of steps
    Clients         \* users of the API

Leaf == Values \cup {Absent, Null}

Data == [Paths -> Leaf]

ASSUME CaseDataAssumption ==
    /\ DOMAIN KeyOf = Paths
    /\ Allowed \in [Paths -> SUBSET Values]
    /\ Required \subseteq Paths
    /\ \A patch \in Patches :
          /\ DOMAIN patch \subseteq Paths
          /\ \A p \in DOMAIN patch : patch[p] \in Values \cup {Null}

VARIABLES
    data,           \* cases.data
    version,        \* cases.version
    status,         \* cases.status
    seen            \* the data each client knows of, and the version it got

vars == <<data, version, status, seen>>

\* A client that has read nothing: the version of a case starts at 1.
NotRead == [version |-> 0, data |-> [p \in Paths |-> Absent]]

-----------------------------------------------------------------------------
\* TRUE when there is no validation error.
ValidateCaseData(d) ==
    \A p \in Paths :
        IF d[p] \in {Absent, Null} THEN p \notin Required ELSE d[p] \in Allowed[p]

validateManualSourcePatch(patch) == DOMAIN patch \cap NotManual = {}

DeepMerge(d, patch) ==
    [p \in Paths |-> IF p \in DOMAIN patch THEN patch[p] ELSE d[p]]

\* data || patch in PostgreSQL: the keys of the patch replace those of data.
Concat(d, patch) ==
    [p \in Paths |->
        IF p \in DOMAIN patch THEN patch[p]
        ELSE IF \E q \in DOMAIN patch : KeyOf[q] = KeyOf[p] THEN Absent
        ELSE d[p]]

\* The case has been created: by CreateCase, which validates, or by a webhook,
\* which does not.
Init ==
    /\ data \in Data
    /\ version = 1
    /\ status = "open"
    /\ seen = [c \in Clients |-> NotRead]

\* A page of the case, or of one of its tasks (GetTask shows the same data).
GetCase(c) ==
    /\ seen' = [seen EXCEPT ![c] = [version |-> version, data |-> data]]
    /\ UNCHANGED <<data, version, status>>

\* PATCH with the version the client has seen; errors change nothing.  The case
\* in the answer is read after the commit: a GetCase that follows, or is lost.
UpdateCaseData(c, patch) ==
    /\ seen[c] # NotRead
    /\ version = seen[c].version
    /\ validateManualSourcePatch(patch)
    /\ ValidateCaseData(DeepMerge(data, patch))
    /\ data' = DeepMerge(data, patch)
    /\ version' = version + 1
    /\ seen' = [seen EXCEPT ![c].data = DeepMerge(seen[c].data, patch)]
    /\ UNCHANGED status

\* Mutant: the output of a step is written without a new version.
completeStep_SameVersion(patch) ==
    /\ data' = Concat(data, patch)
    /\ UNCHANGED <<version, status, seen>>

\* The output of a step that writes case data: any JSON object, {} included.
completeStep(patch) ==
    /\ data' = Concat(data, patch)
    /\ version' = version + 1
    /\ UNCHANGED <<status, seen>>

\* A client submits the form of a task; what it is bound to is below the key
\* "decision" and merged into what is there.
CompleteTask(c, patch) ==
    /\ seen[c] # NotRead
    /\ patch # << >>
    /\ \A p \in DOMAIN patch : KeyOf[p] = DecisionKey
    /\ data' = DeepMerge(data, patch)
    /\ version' = version + 1
    /\ seen' = [seen EXCEPT ![c].data = DeepMerge(seen[c].data, patch)]
    /\ UNCHANGED status

\* A message that arrived through a channel and matched the case.
ChannelUpdate(patch) ==
    /\ patch # << >>
    /\ ValidateCaseData(DeepMerge(data, patch))
    /\ data' = DeepMerge(data, patch)
    /\ version' = version + 1
    /\ UNCHANGED <<status, seen>>

\* A webhook in mode "update" whose payload names the case.
createOrUpdateCase(payload) ==
    /\ payload # << >>
    /\ data' = Concat(data, payload)
    /\ version' = version + 1
    /\ UNCHANGED <<status, seen>>

\* An agent writes one value, not null, through its case data tool.
MergeCaseData(patch) ==
    /\ \E p \in DOMAIN patch : patch[p] # Null
    /\ \A p, q \in DOMAIN patch : KeyOf[p] = KeyOf[q]
    /\ data' = Concat(data, patch)
    /\ version' = version + 1
    /\ UNCHANGED <<status, seen>>

\* Mutant: another spelling of the status.
cancelCase_Spelled ==
    /\ status' = "canceled"
    /\ version' = version + 1
    /\ UNCHANGED <<data, seen>>

cancelCase ==
    /\ status' = "cancelled"
    /\ version' = version + 1
    /\ UNCHANGED <<data, seen>>

\* Whatever the status was, as long as no step is active.
CloseCase ==
    /\ status' = "completed"
    /\ UNCHANGED <<data, version, seen>>

Next ==
    \/ \E c \in Clients : GetCase(c)
    \/ \E c \in Clients, patch \in Patches : UpdateCaseData(c, patch) \/ CompleteTask(c, patch)
    \/ \E patch \in Patches :
          completeStep(patch) \/ ChannelUpdate(patch) \/ createOrUpdateCase(patch) \/ MergeCaseData(patch)
    \/ cancelCase
    \/ CloseCase

Spec == Init /\ [][Next]_vars
-----------------------------------------------------------------------------
\* The row of the case keeps its types.
TypeOK ==
    /\ data \in Data
    /\ version \in Nat
    /\ status \in {"open", "completed", "cancelled"}
    /\ seen \in [Clients -> [version : Nat, data : Data]]

\* Optimistic locking does what it is for: a client whose version is current
\* has seen the current data, whoever wrote in between, and so an update that
\* passes the version check overwrites nothing its client has not seen.
VersionIdentifiesData ==
    \A c \in Clients :
        (seen[c] # NotRead /\ seen[c].version = version) => seen[c].data = data

\* "Case version increments monotonically on data changes only": a step that
\* leaves the data of the case alone and changes its status, as cancelling it
\* does, leaves the version alone.
VersionOnDataChangesOnly == [][status' # status => version' = version]_vars

\* "Case data always valid against schema - mutations validate before commit":
\* no writer makes valid data invalid.
MutationsValidate == [][ValidateCaseData(data) => ValidateCaseData(data')]_vars

\* "This prevents accidental overwrites when multiple users or processes
\* interact with the same case simultaneously": a value that a client replaces
\* is one that the client has read or written.
NoBlindOverwrite ==
    [][\A c \in Clients, patch \in Patches :
          (UpdateCaseData(c, patch) \/ CompleteTask(c, patch)) =>
              \A p \in DOMAIN patch :
                  data[p] # patch[p] => data[p] = seen[c].data[p]]_vars
=============================================================================
