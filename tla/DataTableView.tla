---------------------------- MODULE DataTableView ----------------------------
(***************************************************************************)
(* What a DataTable promises its user, without the bus, the YUI widgets   *)
(* and the pagination details (spec, section 5: "last response wins").    *)
(* The table holds a current query (an event name and value); making a    *)
(* query current always requests it; the rows shown change only when a   *)
(* request is answered, and then to the answer of that request, whichever *)
(* query is current by then.  A failed request changes nothing shown.     *)
(***************************************************************************)
EXTENDS Naturals

CONSTANTS
    Names,      \* query names (bus events)
    Values,     \* query values
    InitValue,  \* the value held before any query
    None        \* no name / no rows

VARIABLES
    curN,       \* name of the current query
    curV,       \* value of the current query
    pending,    \* requests sent and not answered: [id, name, value]
    sent,       \* requests sent so far
    shown       \* the value whose answer is shown, or None

Init ==
    /\ curN = None
    /\ curV = InitValue
    /\ pending = {}
    /\ sent = 0
    /\ shown = None

\* A query becomes current and is requested.
Ask(n, v) ==
    /\ curN' = n
    /\ curV' = v
    /\ pending' = pending \cup {[id |-> sent + 1, name |-> n, value |-> v]}
    /\ sent' = sent + 1
    /\ UNCHANGED shown

\* A pending request is answered and its rows are shown.
Show(r) ==
    /\ r \in pending
    /\ pending' = pending \ {r}
    /\ shown' = r.value
    /\ UNCHANGED <<curN, curV, sent>>

\* A pending request fails; the rows shown stay.
Drop(r) ==
    /\ r \in pending
    /\ pending' = pending \ {r}
    /\ UNCHANGED <<curN, curV, sent, shown>>

\* The query asked is the one made current (Values may be infinite, so it
\* is named by the primed variables rather than enumerated).
Next ==
    \/ curN' \in Names /\ curV' \in Values /\ Ask(curN', curV')
    \/ \E r \in pending : Show(r) \/ Drop(r)

vars == <<curN, curV, pending, sent, shown>>

Spec == Init /\ [][Next]_vars
=============================================================================
