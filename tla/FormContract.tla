---------------------------- MODULE FormContract ----------------------------
(***************************************************************************)
(* What a form dialog promises (spec, section 4.3), without its fields,   *)
(* its listeners and its OK button.  The form is loaded; then either the  *)
(* dialog is rendered, or a 404 submits the empty variable set, or a      *)
(* failure prompt ends it.  A rendered dialog submits only data that      *)
(* passes validation; it is torn down by a cancel or by the success of a  *)
(* submission, and once torn down it never comes back.  A failure leaves  *)
(* the dialog as it was, for the user to retry.                           *)
(***************************************************************************)
EXTENDS Naturals

CONSTANTS
    Data,       \* the variable sets a rendered dialog may hold
    NoData,     \* the empty variable set a 404 submits
    Valid(_)    \* the validation of a variable set

VARIABLES
    stage,      \* "loading", "rendered" or "over"
    pending,    \* submissions made and not yet answered: [id, data]
    sent        \* submissions made so far

vars == <<stage, pending, sent>>

Init ==
    /\ stage = "loading"
    /\ pending = {}
    /\ sent = 0

\* A submission of d.
Submit(d) ==
    /\ pending' = pending \cup {[id |-> sent + 1, data |-> d]}
    /\ sent' = sent + 1

\* The form fragment arrives and the dialog is shown.
Render ==
    /\ stage = "loading"
    /\ stage' = "rendered"
    /\ UNCHANGED <<pending, sent>>

\* No form exists: the empty variable set is submitted, no dialog is shown.
NoForm ==
    /\ stage = "loading"
    /\ stage' = "over"
    /\ Submit(NoData)

\* The form cannot be loaded: a failure prompt, no dialog.
LoadFail ==
    /\ stage = "loading"
    /\ stage' = "over"
    /\ UNCHANGED <<pending, sent>>

\* The rendered dialog submits valid data.
Confirm(d) ==
    /\ stage = "rendered"
    /\ Valid(d)
    /\ Submit(d)
    /\ UNCHANGED stage

\* The user cancels: the dialog is torn down.
Teardown ==
    /\ stage = "rendered"
    /\ stage' = "over"
    /\ UNCHANGED <<pending, sent>>

\* A submission succeeds: a dialog still shown is torn down.
Succeed(s) ==
    /\ s \in pending
    /\ pending' = pending \ {s}
    /\ stage' = IF stage = "rendered" THEN "over" ELSE stage
    /\ UNCHANGED sent

\* A submission fails: nothing else changes.
Fail(s) ==
    /\ s \in pending
    /\ pending' = pending \ {s}
    /\ UNCHANGED <<stage, sent>>

Next ==
    \/ Render
    \/ NoForm
    \/ LoadFail
    \/ \E d \in Data : Confirm(d)
    \/ Teardown
    \/ \E s \in pending : Succeed(s) \/ Fail(s)

Spec == Init /\ [][Next]_vars
=============================================================================
