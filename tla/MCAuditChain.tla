---------------------------- MODULE MCAuditChain ----------------------------
(* The audit trail with a bounded number of events per case. *)
EXTENDS AuditChain

CONSTANTS MaxEvents     \* events per case, committed or not

RowsOf(c) == case_events[c] \cup UNION {{r \in inserted[t] : r.case = c} : t \in Txs}

Bounded == \A c \in Cases : Cardinality(RowsOf(c)) <= MaxEvents
=============================================================================
