----------------------------- MODULE DataTable -----------------------------
(***************************************************************************)
(* Activiti.widget.DataTable (activiti-widget.js, lines 465-732) together  *)
(* with the part of its environment it talks to: the application event    *)
(* bus (Activiti.event.fire / Activiti.event.on), the YUI DataTable and    *)
(* Paginator widgets it is wired into, and the server answering its       *)
(* data requests.                                                          *)
(*                                                                         *)
(* Paging and sorting do not reload the table directly: they publish a    *)
(* bus event (fireEvent) that comes back to onEvent, which stores it as    *)
(* the current query and calls reload, an asynchronous request.  Nothing  *)
(* cancels an earlier request, and the server may answer in any order.    *)
(***************************************************************************)
EXTENDS Naturals, Sequences

CONSTANTS
    Events,     \* names of the bus events the table listens to
    Filters,    \* the filter part of an event value (opaque to the table)
    Pattern,    \* Pattern[e]: the filters that match the pattern declared for e
    Keys,       \* sortable column keys
    Totals,     \* record counts the server may report
    Me,         \* this table's id (the owner stamped by fireEvent)
    Others,     \* owners of events published by other components
    None,       \* an absent field / JavaScript null
    MaxFire     \* bound on the events published by the user and by others

\* rowsPerPage used when the server's meta omits it (line 661).
DefaultRowsPerPage == 10

ASSUME ConstAssumption ==
    /\ Pattern \in [Events -> SUBSET Filters]
    /\ Totals \subseteq Nat
    /\ MaxFire \in Nat
    /\ None \notin Filters \cup Keys \cup Nat \cup Others \cup {Me}
    /\ Me \notin Others

VARIABLES
    curName,    \* _currentEventName
    curValue,   \* _currentEventValue
    bus,        \* events published and not yet delivered, in order
    requests,   \* data requests in flight (sendRequest without an answer yet)
    nreq,       \* number of requests sent so far (request ids)
    nfired,     \* number of events published by users and other components
    rows,       \* the record set shown: the query it answers and its total
    msg,        \* the table message: "loading", "error" or "none"
    sortedBy,   \* the YUI DataTable's "sortedBy" attribute
    pag         \* the YUI Paginator's state

vars == <<curName, curValue, bus, requests, nreq, nfired, rows, msg, sortedBy, pag>>

Dirs == {"asc", "desc"}
YuiDirs == {"yui-dt-asc", "yui-dt-desc"}

\* An event value as the table reads and writes it: the filter fields plus
\* the pagination fields start, sort, order, size and owner.
Value == [filter : Filters \cup {None}, start : Nat \cup {None},
          sort : Keys \cup {None}, order : Dirs \cup {None},
          size : Nat \cup {None}, owner : Others \cup {Me, None}]

\* The empty object _currentEventValue starts as (line 489).
NoValue == [filter |-> None, start |-> None, sort |-> None, order |-> None,
            size |-> None, owner |-> None]

ASSUME NoSortAssumption ==
    None \notin [key : Keys \cup {None}, dir : YuiDirs \cup Dirs]

\* No record set shown is confused with the absence of one (rows = null).
ASSUME RowsAssumption ==
    None \notin [q : Value, total : Nat]

BusEvent == [name : Events \cup {None}, value : Value]
Request == [id : Nat, name : Events \cup {None}, value : Value]
NoSort == None

\* The last element of a sequence.
Last(s) == s[Len(s)]

\* The string "yui-dt-" removed from a sort direction (lines 633, 643).
Strip(d) == CASE d = "yui-dt-asc" -> "asc"
              [] d = "yui-dt-desc" -> "desc"
              [] OTHER -> d

\* YUI's getColumnSortDir: the opposite of the current direction when the
\* column is the one sorted by, ascending otherwise (called at line 632).
ColumnSortDir(k) ==
    IF sortedBy # NoSort /\ sortedBy.key = k
    THEN IF sortedBy.dir = "yui-dt-asc" THEN "yui-dt-desc" ELSE "yui-dt-asc"
    ELSE "yui-dt-asc"

TypeOK ==
    /\ curName \in Events \cup {None}
    /\ curValue \in Value
    /\ bus \in Seq(BusEvent)
    /\ requests \subseteq Request
    /\ nreq \in Nat
    /\ nfired \in Nat
    /\ rows \in [q : Value, total : Nat] \cup {None}
    /\ msg \in {"loading", "error", "none"}
    /\ sortedBy \in [key : Keys \cup {None}, dir : YuiDirs \cup Dirs] \cup {NoSort}
    /\ pag \in [offset : Nat, size : Nat \cup {None}, total : Nat]

(* _init (lines 563-676): the table is created empty with the loading    *)
(* message; initialLoad is false, so nothing is requested yet.           *)
Init ==
    /\ curName = None
    /\ curValue = NoValue
    /\ bus = <<>>
    /\ requests = {}
    /\ nreq = 0
    /\ nfired = 0
    /\ rows = None
    /\ msg = "loading"
    /\ sortedBy = NoSort
    /\ pag = [offset |-> 0, size |-> None, total |-> 0]

\* Mutant of FireEvent: the value is built from an empty object instead of
\* a copy of the current value.
FireEventFresh(start, sort, order, size) ==
    LET value == [filter |-> None, start |-> start, sort |-> sort,
                  order |-> order, size |-> size, owner |-> Me]
    IN  bus' = IF curName = None THEN bus
               ELSE Append(bus, [name |-> curName, value |-> value])

(* fireEvent (lines 688-697): a deep copy of the current value with the   *)
(* pagination fields overlaid, published under the current event name.   *)
(* Published under a null name (no event received yet) it reaches no one.*)
FireEvent(start, sort, order, size) ==
    LET value == [filter |-> curValue.filter, start |-> start, sort |-> sort,
                  order |-> order, size |-> size, owner |-> Me]
    IN  bus' = IF curName = None THEN bus
               ELSE Append(bus, [name |-> curName, value |-> value])

(* Another component (navigation, a filter form, the history manager)    *)
(* publishes an event the table listens to, without pagination fields.  *)
ExternalFire(e, f, o) ==
    /\ nfired < MaxFire
    /\ bus' = Append(bus, [name |-> e,
                           value |-> [filter |-> f, start |-> None, sort |-> None,
                                      order |-> None, size |-> None, owner |-> o]])
    /\ nfired' = nfired + 1
    /\ UNCHANGED <<curName, curValue, requests, nreq, rows, msg, sortedBy, pag>>

(* reload (lines 720-730): a request for the current query is sent.      *)
Reload(name, value) ==
    /\ requests' = requests \cup {[id |-> nreq + 1, name |-> name, value |-> value]}
    /\ nreq' = nreq + 1

(* onEvent (lines 707-715) for a delivered event whose value matches the *)
(* pattern: it becomes the current query and the table reloads.          *)
Accept ==
    /\ bus # <<>>
    /\ LET ev == Head(bus) IN
       /\ ev.name \in Events
       /\ ev.value.filter \in Pattern[ev.name]
       /\ curName' = ev.name
       /\ curValue' = ev.value
       /\ Reload(ev.name, ev.value)
    /\ bus' = Tail(bus)
    /\ UNCHANGED <<nfired, rows, msg, sortedBy, pag>>

(* onEvent for an event whose value does not match: nothing happens.     *)
Ignore ==
    /\ bus # <<>>
    /\ ~(Head(bus).name \in Events /\ Head(bus).value.filter \in Pattern[Head(bus).name])
    /\ bus' = Tail(bus)
    /\ UNCHANGED <<curName, curValue, requests, nreq, nfired, rows, msg, sortedBy, pag>>

(* handleSorting (lines 630-635), installed as the table's sortColumn:   *)
(* the next direction for the column, offset 0 and the paginator's rows  *)
(* per page are published as a new event.                                *)
Sort(k) ==
    /\ nfired < MaxFire
    /\ FireEvent(0, k, Strip(ColumnSortDir(k)), pag.size)
    /\ nfired' = nfired + 1
    /\ UNCHANGED <<curName, curValue, requests, nreq, rows, msg, sortedBy, pag>>

\* The page offsets the paginator offers for the record count it holds.
PageOffsets == IF pag.size \in Nat \ {0}
               THEN {p * pag.size : p \in 0..((pag.total - 1) \div pag.size)}
               ELSE {}

(* handlePagination (lines 639-646), subscribed to the paginator's       *)
(* changeRequest: the sort key and direction are read from the table's   *)
(* sortedBy, whose direction is stripped of "yui-dt-" in place.          *)
Page(offset) ==
    /\ nfired < MaxFire
    /\ pag.total > 0
    /\ offset \in PageOffsets \ {pag.offset}
    /\ LET dir == Strip(sortedBy.dir) IN
       /\ sortedBy' = [sortedBy EXCEPT !.dir = dir]
       /\ FireEvent(offset, sortedBy.key, dir, pag.size)
    /\ nfired' = nfired + 1
    /\ UNCHANGED <<curName, curValue, requests, nreq, rows, msg, pag>>

\* Mutant of RespondSuccess: sortedBy is only set when the meta has a sort key.
RespondSuccessSortKeyOnly(r, t) ==
    /\ r \in requests
    /\ requests' = requests \ {r}
    /\ rows' = [q |-> r.value, total |-> t]
    /\ msg' = "none"
    /\ pag' = [offset |-> IF r.value.start \in {None, 0} THEN 0 ELSE r.value.start,
               size   |-> IF r.value.size \in {None, 0} THEN DefaultRowsPerPage ELSE r.value.size,
               total  |-> IF t # 0 THEN t ELSE pag.total]
    /\ sortedBy' = IF r.value.sort = None THEN sortedBy
                   ELSE [key |-> r.value.sort,
                         dir |-> IF r.value.order = "desc" THEN "yui-dt-desc" ELSE "yui-dt-asc"]
    /\ UNCHANGED <<curName, curValue, bus, nreq, nfired>>

\* Mutant of RespondSuccess: the sort direction loses its "yui-dt-asc" default.
RespondSuccessNoDirDefault(r, t) ==
    /\ r \in requests
    /\ requests' = requests \ {r}
    /\ rows' = [q |-> r.value, total |-> t]
    /\ msg' = "none"
    /\ pag' = [offset |-> IF r.value.start \in {None, 0} THEN 0 ELSE r.value.start,
               size   |-> IF r.value.size \in {None, 0} THEN DefaultRowsPerPage ELSE r.value.size,
               total  |-> IF t # 0 THEN t ELSE pag.total]
    /\ sortedBy' = [key |-> r.value.sort, dir |-> r.value.order]
    /\ UNCHANGED <<curName, curValue, bus, nreq, nfired>>

(* The server answers request r with total t and echoes the query's      *)
(* pagination fields in its meta.  doBeforeLoadData (lines 655-669)       *)
(* converts the meta with its "||" defaults, and onDataReturnSetRows sets *)
(* the rows, the paginator and sortedBy; a total of 0 is falsy, so the     *)
(* payload's totalRecords is undefined and the paginator keeps its own.   *)
RespondSuccess(r, t) ==
    /\ r \in requests
    /\ requests' = requests \ {r}
    /\ rows' = [q |-> r.value, total |-> t]
    /\ msg' = "none"
    /\ pag' = [offset |-> IF r.value.start \in {None, 0} THEN 0 ELSE r.value.start,
               size   |-> IF r.value.size \in {None, 0} THEN DefaultRowsPerPage ELSE r.value.size,
               total  |-> IF t # 0 THEN t ELSE pag.total]
    /\ sortedBy' = [key |-> r.value.sort,
                    dir |-> IF r.value.order = None THEN "yui-dt-asc"
                            ELSE IF r.value.order = "asc" THEN "yui-dt-asc" ELSE "yui-dt-desc"]
    /\ UNCHANGED <<curName, curValue, bus, nreq, nfired>>

\* Mutant of RespondFailure: a failed request clears the rows shown.
RespondFailureClearsRows(r) ==
    /\ r \in requests
    /\ requests' = requests \ {r}
    /\ msg' = "error"
    /\ rows' = None
    /\ UNCHANGED <<curName, curValue, bus, nreq, nfired, sortedBy, pag>>

(* The request fails: the failure callback is the same onDataReturnSetRows,*)
(* which shows the error message and keeps rows, paginator and sortedBy.  *)
RespondFailure(r) ==
    /\ r \in requests
    /\ requests' = requests \ {r}
    /\ msg' = "error"
    /\ UNCHANGED <<curName, curValue, bus, nreq, nfired, rows, sortedBy, pag>>

Next ==
    \/ \E e \in Events, f \in Filters, o \in Others \cup {None} : ExternalFire(e, f, o)
    \/ Accept
    \/ Ignore
    \/ \E k \in Keys : Sort(k)
    \/ \E offset \in PageOffsets : Page(offset)
    \/ \E r \in requests, t \in Totals : RespondSuccess(r, t)
    \/ \E r \in requests : RespondFailure(r)

(* The bus delivers what was published and the server answers; the user *)
(* and other components are under no obligation to act.                  *)
Fairness ==
    /\ WF_vars(Accept \/ Ignore)
    /\ WF_vars(\E r \in requests : \/ \E t \in Totals : RespondSuccess(r, t)
                                   \/ RespondFailure(r))

Spec == Init /\ [][Next]_vars
FairSpec == Spec /\ Fairness

-----------------------------------------------------------------------------
(* Properties *)

\* The table seen as the abstract view: the current query, the requests in
\* flight and the value whose rows are shown.
View == INSTANCE DataTableView
        WITH Names <- Events, Values <- Value, InitValue <- NoValue,
             curN <- curName, curV <- curValue, pending <- requests,
             sent <- nreq, shown <- IF rows = None THEN None ELSE rows.q

(* The table implements the last-response-wins view: onEvent makes a    *)
(* query current only together with a reload of it, onDataReturnSetRows *)
(* shows the rows of the request it answers and, on failure, keeps the  *)
(* rows; paging, sorting and the bus are invisible to the view.         *)
ViewRefined == View!Spec

(* Whenever the paginator can issue a changeRequest (it holds records),   *)
(* sortedBy is set and the rows per page known, so handlePagination never *)
(* dereferences a null sortedBy (line 642).                               *)
SortedBySetBeforePaging ==
    pag.total > 0 => sortedBy # NoSort /\ pag.size \in Nat \ {0}

(* Every event the table publishes for its own paging and sorting keeps   *)
(* the filter of the event it was showing, so its own onEvent accepts it  *)
(* again (spec: paging never drops filter fields).                        *)
OwnEventsAccepted ==
    \A i \in 1..Len(bus) :
        bus[i].value.owner = Me =>
            bus[i].name \in Events /\ bus[i].value.filter \in Pattern[bus[i].name]

(* Once every event is delivered and every request answered, the rows    *)
(* shown answer the current query (reload "with the current settings").  *)
QuiescentShowsCurrent ==
    (bus = <<>> /\ requests = {} /\ msg = "none") => rows.q = curValue

(* Clicking the header of the column shown in ascending order requests   *)
(* descending order (the toggle handleSorting computes, line 631).       *)
SortToggles ==
    [][\A k \in Keys :
          (Sort(k) /\ curName # None /\ sortedBy # NoSort /\ sortedBy.key = k
                   /\ Strip(sortedBy.dir) = "asc")
              => Last(bus').value.order = "desc"]_vars

=============================================================================
