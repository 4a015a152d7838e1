--------------------------- MODULE CaseDataProof ---------------------------
(***************************************************************************)
(* Optimistic locking on the data of a case, for every schema, every set   *)
(* of clients and every set of patches.                                    *)
(***************************************************************************)
EXTENDS CaseData, TLAPS

\* No client has a version from the future: with VersionIdentifiesData this is
\* inductive, because every write of the data takes a new version.
SeenIsPast == \A c \in Clients : seen[c].version <= version

Inv == TypeOK /\ version >= 1 /\ SeenIsPast /\ VersionIdentifiesData

\* Merging a patch into the data of a case, either way, gives data of a case.
LEMMA MergeType ==
    ASSUME NEW d \in Data, NEW patch \in Patches
    PROVE  DeepMerge(d, patch) \in Data /\ Concat(d, patch) \in Data
BY CaseDataAssumption DEF Data, Leaf, DeepMerge, Concat

\* A new case has version 1, and nobody has read it.
LEMMA InvInit == Init => Inv
BY DEF Init, Inv, TypeOK, SeenIsPast, VersionIdentifiesData, NotRead, Data, Leaf

\* A step that takes a new version and leaves what clients know alone.
LEMMA NewVersion ==
    ASSUME Inv, data' \in Data, version' = version + 1, UNCHANGED seen,
           status' \in {"open", "completed", "cancelled"}
    PROVE  Inv'
BY DEF Inv, TypeOK, SeenIsPast, VersionIdentifiesData

\* A step that takes a new version, and a client knows what it has written.
LEMMA ClientWrite ==
    ASSUME Inv, NEW c \in Clients, NEW patch \in Patches,
           data' \in Data, version' = version + 1, UNCHANGED status,
           seen' = [seen EXCEPT ![c].data = DeepMerge(seen[c].data, patch)]
    PROVE  Inv'
<1>1. DeepMerge(seen[c].data, patch) \in Data
  BY MergeType DEF Inv, TypeOK
<1>2. seen' \in [Clients -> [version : Nat, data : Data]]
  BY <1>1 DEF Inv, TypeOK
<1>3. \A b \in Clients : seen'[b].version = seen[b].version
  BY DEF Inv, TypeOK
<1>4. \A b \in Clients : seen'[b].version < version'
  BY <1>3 DEF Inv, TypeOK, SeenIsPast
<1>5. SeenIsPast' /\ VersionIdentifiesData'
  BY <1>2, <1>4 DEF Inv, TypeOK, SeenIsPast, VersionIdentifiesData
<1> QED
  BY <1>2, <1>5 DEF Inv, TypeOK

\* Every step keeps the invariant.
LEMMA InvStep == Inv /\ [Next]_vars => Inv'
<1> SUFFICES ASSUME Inv, [Next]_vars PROVE Inv'
  OBVIOUS
<1> data \in Data
  BY DEF Inv, TypeOK
<1>1. ASSUME NEW c \in Clients, GetCase(c) PROVE Inv'
  BY <1>1 DEF GetCase, Inv, TypeOK, SeenIsPast, VersionIdentifiesData
<1>2. ASSUME NEW c \in Clients, NEW patch \in Patches,
             UpdateCaseData(c, patch) \/ CompleteTask(c, patch)
      PROVE  Inv'
  BY <1>2, MergeType, ClientWrite DEF UpdateCaseData, CompleteTask
<1>3. ASSUME NEW patch \in Patches,
             completeStep(patch) \/ ChannelUpdate(patch)
               \/ createOrUpdateCase(patch) \/ MergeCaseData(patch)
      PROVE  Inv'
  BY <1>3, MergeType, NewVersion
     DEF completeStep, ChannelUpdate, createOrUpdateCase, MergeCaseData, Inv, TypeOK
<1>4. CASE cancelCase
  BY <1>4, NewVersion DEF cancelCase
<1>5. CASE CloseCase
  BY <1>5 DEF CloseCase, Inv, TypeOK, SeenIsPast, VersionIdentifiesData
<1>6. CASE UNCHANGED vars
  BY <1>6 DEF vars, Inv, TypeOK, SeenIsPast, VersionIdentifiesData
<1> QED
  BY <1>1, <1>2, <1>3, <1>4, <1>5, <1>6 DEF Next

\* A client whose version is current knows the current data: an update that
\* passes the version check of UpdateCaseData overwrites nothing unseen.
THEOREM CurrentVersionIsCurrentData == Spec => []VersionIdentifiesData
<1>1. Inv => VersionIdentifiesData
  BY DEF Inv
<1> QED
  BY InvInit, InvStep, <1>1, PTL DEF Spec

\* The row of a case keeps its types.
THEOREM CaseDataTypeCorrect == Spec => []TypeOK
<1>1. Inv => TypeOK
  BY DEF Inv
<1> QED
  BY InvInit, InvStep, <1>1, PTL DEF Spec
=============================================================================
