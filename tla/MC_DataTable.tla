---------------------------- MODULE MC_DataTable ----------------------------
(* A DataTable listening to two events, one filter matching the pattern of *)
(* the first event only; two sortable columns; the server reports 0 or 20  *)
(* records, so with 10 rows per page there are two pages.                  *)
EXTENDS DataTable

CONSTANTS e1, e2, f1, f2, k1, k2, t1, o1, null

MCEvents == {e1, e2}
MCFilters == {f1, f2}
MCPattern == [e \in MCEvents |-> IF e = e1 THEN {f1, f2} ELSE {f1}]
MCKeys == {k1, k2}
MCTotals == {0, 20}
MCOthers == {o1}
=============================================================================
