-------------------------- MODULE DataTable_proofs --------------------------
(***************************************************************************)
(* Proofs that every behaviour of DataTable keeps its type and the safety  *)
(* invariants checked by the run dt_safety, for all values of the          *)
(* constants.                                                              *)
(***************************************************************************)
EXTENDS DataTable, SequenceTheorems, TLAPS

\* Every request in flight has an id already handed out.
IdsBelow == \A r \in requests : r.id \in 1..nreq

\* The current event matches its pattern (it was accepted by onEvent).
CurMatches == curName # None => curValue.filter \in Pattern[curName]

\* The inductive invariant.
IInv ==
    /\ TypeOK
    /\ IdsBelow
    /\ CurMatches
    /\ SortedBySetBeforePaging
    /\ OwnEventsAccepted

USE ConstAssumption, NoSortAssumption, RowsAssumption

LEMMA InitIInv == Init => IInv
BY DEF Init, IInv, TypeOK, IdsBelow, CurMatches, SortedBySetBeforePaging, OwnEventsAccepted, NoValue, Value


LEMMA ExternalFireIInv ==
    ASSUME IInv, NEW e \in Events, NEW f \in Filters, NEW o \in Others \cup {None},
           ExternalFire(e, f, o)
    PROVE  IInv'
<1> DEFINE ev == [name |-> e,
                  value |-> [filter |-> f, start |-> None, sort |-> None,
                             order |-> None, size |-> None, owner |-> o]]
<1>1. ev \in BusEvent /\ bus \in Seq(BusEvent)
  BY DEF IInv, TypeOK, BusEvent, Value
<1>2. bus' = Append(bus, ev)
  BY DEF ExternalFire
<1>3. /\ bus' \in Seq(BusEvent) /\ Len(bus') = Len(bus) + 1
      /\ \A i \in 1..Len(bus) : bus'[i] = bus[i]
      /\ bus'[Len(bus) + 1] = ev
  BY <1>1, <1>2, AppendProperties
<1>4. TypeOK'
  BY <1>3 DEF IInv, ExternalFire, TypeOK
<1>5. OwnEventsAccepted'
  <2> SUFFICES ASSUME NEW i \in 1..Len(bus'), bus'[i].value.owner = Me
               PROVE  bus'[i].name \in Events /\ bus'[i].value.filter \in Pattern[bus'[i].name]
    BY DEF OwnEventsAccepted
  <2>1. CASE i = Len(bus) + 1
    BY <2>1, <1>3, ConstAssumption
  <2>2. CASE i \in 1..Len(bus)
    BY <2>2, <1>3 DEF IInv, OwnEventsAccepted
  <2>3. QED
    BY <2>1, <2>2, <1>1, <1>3
<1>6. QED
  BY <1>4, <1>5 DEF IInv, ExternalFire, IdsBelow, CurMatches,
     SortedBySetBeforePaging

LEMMA AcceptIInv ==
    ASSUME IInv, Accept
    PROVE  IInv'
<1> DEFINE ev == Head(bus)
<1>1. bus # <<>> /\ bus \in Seq(BusEvent)
  BY DEF IInv, Accept, TypeOK
<1>2. /\ ev \in BusEvent /\ Tail(bus) \in Seq(BusEvent)
      /\ Len(Tail(bus)) = Len(bus) - 1
      /\ \A i \in 1..Len(Tail(bus)) : Tail(bus)[i] = bus[i+1]
  BY <1>1, HeadTailProperties
<1>3. /\ ev.name \in Events /\ ev.value.filter \in Pattern[ev.name]
      /\ curName' = ev.name /\ curValue' = ev.value
      /\ requests' = requests \cup {[id |-> nreq + 1, name |-> ev.name, value |-> ev.value]}
      /\ nreq' = nreq + 1 /\ bus' = Tail(bus)
      /\ UNCHANGED <<nfired, rows, msg, sortedBy, pag>>
  BY DEF Accept, Reload
<1>4. TypeOK'
  BY <1>2, <1>3 DEF IInv, TypeOK, BusEvent, Request
<1>5. IdsBelow'
  BY <1>3 DEF IInv, TypeOK, IdsBelow
<1>6. CurMatches'
  BY <1>3 DEF CurMatches
<1>7. OwnEventsAccepted'
  BY <1>1, <1>2, <1>3 DEF IInv, OwnEventsAccepted
<1>8. SortedBySetBeforePaging'
  BY <1>3 DEF IInv, SortedBySetBeforePaging
<1>9. QED
  BY <1>4, <1>5, <1>6, <1>7, <1>8 DEF IInv

LEMMA IgnoreIInv ==
    ASSUME IInv, Ignore
    PROVE  IInv'
<1>1. bus # <<>> /\ bus \in Seq(BusEvent)
  BY DEF IInv, Ignore, TypeOK
<1>2. /\ Tail(bus) \in Seq(BusEvent)
      /\ Len(Tail(bus)) = Len(bus) - 1
      /\ \A i \in 1..Len(Tail(bus)) : Tail(bus)[i] = bus[i+1]
  BY <1>1, HeadTailProperties
<1>3. OwnEventsAccepted'
  BY <1>1, <1>2 DEF IInv, Ignore, OwnEventsAccepted
<1>4. QED
  BY <1>2, <1>3 DEF IInv, Ignore, TypeOK, IdsBelow, CurMatches,
     SortedBySetBeforePaging

\* What fireEvent publishes, when it publishes.
FiredEvent(start, sort, order, size) ==
    [name |-> curName,
     value |-> [filter |-> curValue.filter, start |-> start, sort |-> sort,
                order |-> order, size |-> size, owner |-> Me]]

(* fireEvent keeps the type and OwnEventsAccepted: it publishes the     *)
(* current filter under the current name, or nothing.                    *)
LEMMA FireEventOwn ==
    ASSUME IInv, NEW start \in Nat, NEW sort \in Keys \cup {None},
           NEW order \in Dirs \cup {None}, NEW size \in Nat \cup {None},
           FireEvent(start, sort, order, size),
           UNCHANGED <<curName, curValue>>
    PROVE  bus' \in Seq(BusEvent) /\ OwnEventsAccepted'
<1> DEFINE ev == FiredEvent(start, sort, order, size)
<1>1. CASE curName = None
  BY <1>1 DEF FireEvent, IInv, TypeOK, OwnEventsAccepted
<1>2. CASE curName # None
  <2>1. ev \in BusEvent /\ bus \in Seq(BusEvent)
    BY DEF IInv, TypeOK, BusEvent, Value, FiredEvent
  <2>2. bus' = Append(bus, ev)
    BY <1>2 DEF FireEvent, FiredEvent
  <2>3. /\ bus' \in Seq(BusEvent) /\ Len(bus') = Len(bus) + 1
        /\ \A i \in 1..Len(bus) : bus'[i] = bus[i]
        /\ bus'[Len(bus) + 1] = ev
    BY <2>1, <2>2, AppendProperties
  <2>4. ev.name \in Events /\ ev.value.filter \in Pattern[ev.name]
    BY <1>2 DEF IInv, TypeOK, CurMatches, FiredEvent
  <2>5. OwnEventsAccepted'
    <3> SUFFICES ASSUME NEW i \in 1..Len(bus'), bus'[i].value.owner = Me
                 PROVE  bus'[i].name \in Events /\ bus'[i].value.filter \in Pattern[bus'[i].name]
      BY DEF OwnEventsAccepted
    <3>1. CASE i = Len(bus) + 1
      BY <3>1, <2>3, <2>4
    <3>2. CASE i \in 1..Len(bus)
      BY <3>2, <2>3 DEF IInv, OwnEventsAccepted
    <3>3. QED
      BY <3>1, <3>2, <2>1, <2>3
  <2>6. QED
    BY <2>3, <2>5
<1>3. QED
  BY <1>1, <1>2

LEMMA SortIInv ==
    ASSUME IInv, NEW k \in Keys, Sort(k)
    PROVE  IInv'
<1>1. Strip(ColumnSortDir(k)) \in Dirs /\ pag.size \in Nat \cup {None}
  BY DEF ColumnSortDir, Strip, Dirs, IInv, TypeOK
<1>2. bus' \in Seq(BusEvent) /\ OwnEventsAccepted'
  BY <1>1, FireEventOwn DEF Sort
<1>3. QED
  BY <1>2 DEF IInv, Sort, TypeOK, IdsBelow, CurMatches,
     SortedBySetBeforePaging

LEMMA PageIInv ==
    ASSUME IInv, NEW offset \in PageOffsets, Page(offset)
    PROVE  IInv'
<1>1. sortedBy \in [key : Keys \cup {None}, dir : YuiDirs \cup Dirs]
      /\ pag.size \in Nat \ {0}
  BY DEF Page, IInv, TypeOK, SortedBySetBeforePaging, NoSort
<1>2. offset \in Nat
  <2>1. PageOffsets = {p * pag.size : p \in 0..((pag.total - 1) \div pag.size)}
    BY <1>1 DEF PageOffsets
  <2>2. QED
    BY <1>1, <2>1
<1>3. Strip(sortedBy.dir) \in Dirs
  BY <1>1 DEF Strip, Dirs, YuiDirs
<1>4. bus' \in Seq(BusEvent) /\ OwnEventsAccepted'
  BY <1>1, <1>2, <1>3, FireEventOwn DEF Page
<1>5. sortedBy' \in [key : Keys \cup {None}, dir : YuiDirs \cup Dirs]
  BY <1>1, <1>3 DEF Page
<1>6. SortedBySetBeforePaging'
  BY <1>1, <1>5, NoSortAssumption DEF Page, SortedBySetBeforePaging, NoSort
<1>7. QED
  BY <1>4, <1>5, <1>6 DEF IInv, Page, TypeOK, IdsBelow, CurMatches

LEMMA RespondSuccessIInv ==
    ASSUME IInv, NEW r \in requests, NEW t \in Totals, RespondSuccess(r, t)
    PROVE  IInv'
<1>1. r \in Request
  BY DEF IInv, TypeOK
<1>2. sortedBy' \in [key : Keys \cup {None}, dir : YuiDirs \cup Dirs]
  BY <1>1 DEF RespondSuccess, Request, Value, YuiDirs, Dirs
<1>3. pag' \in [offset : Nat, size : Nat \cup {None}, total : Nat]
      /\ pag'.size \in Nat \ {0}
  BY <1>1, ConstAssumption DEF RespondSuccess, Request, Value, IInv, TypeOK,
     DefaultRowsPerPage
<1>4. TypeOK'
  BY <1>1, <1>2, <1>3, ConstAssumption DEF RespondSuccess, IInv, TypeOK, Request
<1>5. SortedBySetBeforePaging'
  BY <1>2, <1>3, NoSortAssumption DEF SortedBySetBeforePaging, NoSort
<1>6. QED
  BY <1>4, <1>5 DEF IInv, RespondSuccess, IdsBelow, CurMatches,
     OwnEventsAccepted

LEMMA RespondFailureIInv ==
    ASSUME IInv, NEW r \in requests, RespondFailure(r)
    PROVE  IInv'
BY DEF IInv, RespondFailure, TypeOK, IdsBelow, CurMatches,
   SortedBySetBeforePaging, OwnEventsAccepted

LEMMA StepIInv == IInv /\ [Next]_vars => IInv'
<1> SUFFICES ASSUME IInv, [Next]_vars PROVE IInv'
  OBVIOUS
<1>1. CASE \E e \in Events, f \in Filters, o \in Others \cup {None} : ExternalFire(e, f, o)
  BY <1>1, ExternalFireIInv
<1>2. CASE Accept
  BY <1>2, AcceptIInv
<1>3. CASE Ignore
  BY <1>3, IgnoreIInv
<1>4. CASE \E k \in Keys : Sort(k)
  BY <1>4, SortIInv
<1>5. CASE \E offset \in PageOffsets : Page(offset)
  BY <1>5, PageIInv
<1>6. CASE \E r \in requests, t \in Totals : RespondSuccess(r, t)
  BY <1>6, RespondSuccessIInv
<1>7. CASE \E r \in requests : RespondFailure(r)
  BY <1>7, RespondFailureIInv
<1>8. CASE UNCHANGED vars
  BY <1>8 DEF vars, IInv, TypeOK, IdsBelow, CurMatches, SortedBySetBeforePaging, OwnEventsAccepted
<1>9. QED
  BY <1>1, <1>2, <1>3, <1>4, <1>5, <1>6, <1>7, <1>8 DEF Next

LEMMA IInvariant == Spec => []IInv
BY InitIInv, StepIInv, PTL DEF Spec

(* Every reachable state of the table is well typed.                      *)
THEOREM TypeCorrect == Spec => []TypeOK
BY IInvariant, PTL DEF IInv

(* handlePagination can only run once sortedBy and the rows per page are *)
(* set: the null sortedBy of line 642 is never dereferenced.             *)
THEOREM PagingAfterLoad == Spec => []SortedBySetBeforePaging
BY IInvariant, PTL DEF IInv

(* The events the table publishes for its own paging and sorting always  *)
(* pass its own pattern again.                                            *)
THEOREM OwnEventsMatch == Spec => []OwnEventsAccepted
BY IInvariant, PTL DEF IInv


-----------------------------------------------------------------------------
(* Refinement of the abstract view DataTableView.                         *)

\* The value whose rows are shown, as the view sees it.
ShownQ == IF rows = None THEN None ELSE rows.q

LEMMA InitView == Init => View!Init
BY DEF Init, View!Init, ShownQ

\* onEvent's accepting branch is the view's Ask of the delivered event.
LEMMA AcceptView ==
    ASSUME IInv, Accept
    PROVE  View!Next
<1> DEFINE ev == Head(bus)
<1>1. bus # <<>> /\ bus \in Seq(BusEvent)
  BY DEF IInv, Accept, TypeOK
<1>2. ev \in BusEvent
  BY <1>1, HeadTailProperties
<1>3. /\ ev.name \in Events
      /\ curName' = ev.name /\ curValue' = ev.value
      /\ requests' = requests \cup {[id |-> nreq + 1, name |-> ev.name, value |-> ev.value]}
      /\ nreq' = nreq + 1
      /\ UNCHANGED rows
  BY DEF Accept, Reload
<1>4. curName' \in Events /\ curValue' \in Value
  BY <1>2, <1>3 DEF BusEvent
<1>5. View!Ask(curName', curValue')
  BY <1>3 DEF View!Ask, ShownQ
<1>6. QED
  BY <1>4, <1>5 DEF View!Next

\* A successful answer is the view's Show of the request it answers.
LEMMA RespondSuccessView ==
    ASSUME IInv, NEW r \in requests, NEW t \in Totals, RespondSuccess(r, t)
    PROVE  View!Next
<1>1. r \in Request /\ t \in Nat
  BY DEF IInv, TypeOK
<1>2. rows' = [q |-> r.value, total |-> t] /\ r.value \in Value
  BY <1>1 DEF RespondSuccess, Request
<1>3. rows' # None
  BY <1>1, <1>2, RowsAssumption
<1>4. View!Show(r)
  BY <1>2, <1>3 DEF RespondSuccess, View!Show
<1>5. QED
  BY <1>4 DEF View!Next

\* A failed answer is the view's Drop of that request.
LEMMA RespondFailureView ==
    ASSUME NEW r \in requests, RespondFailure(r)
    PROVE  View!Next
<1>1. View!Drop(r)
  BY DEF RespondFailure, View!Drop
<1>2. QED
  BY <1>1 DEF View!Next

\* Every other step leaves the view's state as it is.
LEMMA StutterView ==
    ASSUME \/ \E e \in Events, f \in Filters, o \in Others \cup {None} : ExternalFire(e, f, o)
           \/ Ignore
           \/ \E k \in Keys : Sort(k)
           \/ \E offset \in PageOffsets : Page(offset)
           \/ UNCHANGED vars
    PROVE  UNCHANGED View!vars
BY DEF ExternalFire, Ignore, Sort, Page, vars, View!vars

LEMMA StepView == IInv /\ [Next]_vars => [View!Next]_View!vars
BY AcceptView, RespondSuccessView, RespondFailureView, StutterView DEF Next

(* The table implements the last-response-wins view for every value of   *)
(* the constants: onEvent's reload is the view's Ask, onDataReturnSetRows *)
(* its Show or Drop, and paging, sorting and the bus are stutter steps.   *)
THEOREM ViewRefinement == Spec => ViewRefined
<1>1. Spec => [][View!Next]_View!vars
  BY IInvariant, StepView, PTL DEF Spec
<1>2. QED
  BY <1>1, InitView, PTL DEF Spec, ViewRefined, View!Spec

=============================================================================
