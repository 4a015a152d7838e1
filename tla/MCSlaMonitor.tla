---------------------------- MODULE MCSlaMonitor ----------------------------
(* Two tasks and two users; one task is reassigned when it is overdue. *)
EXTENDS SlaMonitor, TLC

CONSTANTS t1, t2, u1, u2

MCDeadline == (t1 :> 0 @@ t2 :> 1)

MCAction == (t1 :> "both" @@ t2 :> "")

MCSeniority == (u1 :> 1 @@ u2 :> 2)
=============================================================================
