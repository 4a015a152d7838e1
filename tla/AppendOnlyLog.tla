--------------------------- MODULE AppendOnlyLog ---------------------------
(***************************************************************************)
(* What the audit trail promises its readers: per case, a log of stamped   *)
(* entries to which entries are only ever added, and only after all those  *)
(* that are already there.                                                 *)
(***************************************************************************)
EXTENDS Naturals

CONSTANT LogIds

VARIABLE log

Init == log = [i \in LogIds |-> {}]

IsExtension(new, old) ==
    /\ old \subseteq new
    /\ \A q \in old, r \in new \ old : q.at < r.at

Extend == \A i \in LogIds : IsExtension(log'[i], log[i])

Spec == Init /\ [][Extend]_log
=============================================================================
