-------------------------------- MODULE Form --------------------------------
(***************************************************************************)
(* Activiti.widget.Form (activiti-widget.js, lines 735-1024) and its two  *)
(* subclasses StartProcessInstanceForm and CompleteTaskForm (lines         *)
(* 1027-1114), which differ only in the service call doSubmit makes.      *)
(*                                                                         *)
(* The form fragment is loaded from the server; on success it becomes a   *)
(* modal dialog whose fields are validated on every keyup / change, with  *)
(* the OK button disabled while the form is invalid.  OK and the Enter    *)
(* key both call onSubmit, which validates again, disables OK and calls   *)
(* the service; the service answers asynchronously with onSuccess or      *)
(* onFailure.  A form that does not exist (404) is submitted empty.       *)
(***************************************************************************)
EXTENDS Naturals, FiniteSets

CONSTANTS
    Fields,     \* base names of the form's fields (names without "_")
    Kind,       \* Kind[f]: the element: "input", "select" or "textarea"
    TypeMeta,   \* TypeMeta[f]: value of the hidden field f_type, or None
    Required,   \* Required[f]: whether a hidden field f_required is "true"
    Vals,       \* the strings a user may leave in a field
    None,       \* absence of an f_type field
    MaxUser     \* bound on the user's edits, clicks and key presses

\* The classes of strings the validation tells apart: "empty" is "",
\* "spaces" a non-empty string of blanks, "digits" a string of digits,
\* "mixed" any other text ("1a"), "true" and "false" the two literals.
Universe == {"empty", "spaces", "digits", "mixed", "true", "false"}
DigitsOnly == {"digits"}             \* matches /^\d+$/ (line 916)
BooleanLiteral == {"true", "false"}  \* matches /^(true|false)$/ (line 919)
\* YAHOO.lang.trim (line 926)
Trim(v) == IF v = "spaces" THEN "empty" ELSE v

ASSUME FormAssumption ==
    /\ Kind \in [Fields -> {"input", "select", "textarea"}]
    /\ TypeMeta \in [Fields -> {"Integer", "Boolean", None}]
    /\ Required \in [Fields -> BOOLEAN]
    /\ Vals \subseteq Universe
    /\ "empty" \in Vals
    /\ None \notin Universe
    /\ MaxUser \in Nat

VARIABLES
    phase,      \* "loading", "open" (dialog shown), "closed" (destroyed),
                \* "noform" (404: no dialog), "failed" (failure prompt shown)
    values,     \* the field values getData returns
    disabled,   \* the OK button's "disabled" attribute
    inflight,   \* submissions sent to the service and not yet answered
    nsub,       \* submissions sent so far (ids)
    nuser       \* user actions so far

vars == <<phase, values, disabled, inflight, nsub, nuser>>

\* The variables doSubmit({}) sends when no form exists (line 976).
EmptyData == [f \in {} |-> "empty"]

Submission == [id : Nat, data : [Fields -> Vals] \cup {EmptyData}]

(* doValidate (lines 896-959), field by field.  A value of length > 0 is *)
(* checked against its f_type; only an empty value is checked against    *)
(* f_required, where the trim is applied.                                 *)
FieldError(f, v) ==
    IF v # "empty"
    THEN \/ TypeMeta[f] = "Integer" /\ v \notin DigitsOnly
         \/ TypeMeta[f] = "Boolean" /\ v \notin BooleanLiteral
    ELSE Required[f] /\ Trim(v) = "empty"

\* doValidate's result: no field in error (line 956).
Valid(data) == \A f \in Fields : ~FieldError(f, data[f])

TypeOK ==
    /\ phase \in {"loading", "open", "closed", "noform", "failed"}
    /\ values \in [Fields -> Vals]
    /\ disabled \in BOOLEAN
    /\ inflight \subseteq Submission
    /\ nsub \in Nat
    /\ nuser \in Nat

(* The constructor of a subclass (lines 1045-1052, 1089-1096) asks the  *)
(* service for the form; values is a placeholder until it is rendered.   *)
Init ==
    /\ phase = "loading"
    /\ values = [f \in Fields |-> "empty"]
    /\ disabled = FALSE
    /\ inflight = {}
    /\ nsub = 0
    /\ nuser = 0

(* doSubmit (lines 990, 1063-1066, 1107-1110): the service call.          *)
DoSubmit(data) ==
    /\ inflight' = inflight \cup {[id |-> nsub + 1, data |-> data]}
    /\ nsub' = nsub + 1

(* onLoadFormSuccess (lines 786-877): the dialog is rendered with the    *)
(* server's field values, shown, and validated once (line 876).          *)
LoadSuccess(v) ==
    /\ phase = "loading"
    /\ phase' = "open"
    /\ values' = v
    /\ disabled' = ~Valid(v)
    /\ UNCHANGED <<inflight, nsub, nuser>>

\* Mutant of LoadNotFound: doSubmit() is called without the empty variables.
LoadNotFoundSubmitsNothing ==
    /\ phase = "loading"
    /\ phase' = "noform"
    /\ DoSubmit(None)
    /\ UNCHANGED <<values, disabled, nuser>>

(* onLoadFormFailure (lines 972-981) with status 404: submit empty.      *)
LoadNotFound ==
    /\ phase = "loading"
    /\ phase' = "noform"
    /\ DoSubmit(EmptyData)
    /\ UNCHANGED <<values, disabled, nuser>>

(* onLoadFormFailure with any other status: a failure prompt.            *)
LoadFailure ==
    /\ phase = "loading"
    /\ phase' = "failed"
    /\ UNCHANGED <<values, disabled, inflight, nsub, nuser>>

(* The user changes a field.  Inputs and selects have a keyup / change   *)
(* listener calling doValidate (lines 822-832); textareas have none.     *)
Edit(f, v) ==
    /\ phase = "open"
    /\ nuser < MaxUser
    /\ values' = [values EXCEPT ![f] = v]
    /\ disabled' = IF Kind[f] = "textarea" THEN disabled ELSE ~Valid(values')
    /\ nuser' = nuser + 1
    /\ UNCHANGED <<phase, inflight, nsub>>

(* onSubmit (lines 889-894): doValidate(true) sets the button to !valid; *)
(* when valid the button is disabled and doSubmit is called.             *)
OnSubmit ==
    /\ disabled' = TRUE
    /\ IF Valid(values) THEN DoSubmit(values) ELSE UNCHANGED <<inflight, nsub>>

(* The user clicks the enabled OK button (its handler is onSubmit).      *)
ClickOK ==
    /\ phase = "open"
    /\ nuser < MaxUser
    /\ ~disabled
    /\ OnSubmit
    /\ nuser' = nuser + 1
    /\ UNCHANGED <<phase, values>>

\* Mutant of EnterKey: the key listener still fires once the dialog is gone.
EnterKeyAnyPhase(f) ==
    /\ nuser < MaxUser
    /\ Kind[f] # "textarea"
    /\ OnSubmit
    /\ nuser' = nuser + 1
    /\ UNCHANGED <<phase, values>>

(* The user presses Enter in a field that is not a textarea: the key     *)
(* listener (lines 841-870) calls onSubmit whatever the button's state.  *)
EnterKey(f) ==
    /\ phase = "open"
    /\ nuser < MaxUser
    /\ Kind[f] # "textarea"
    /\ OnSubmit
    /\ nuser' = nuser + 1
    /\ UNCHANGED <<phase, values>>

(* onCancel (lines 961-963): the dialog is destroyed.                    *)
Cancel ==
    /\ phase = "open"
    /\ nuser < MaxUser
    /\ phase' = "closed"
    /\ nuser' = nuser + 1
    /\ UNCHANGED <<values, disabled, inflight, nsub>>

(* onSuccess (lines 999-1005): the dialog, if one was created, is        *)
(* destroyed.                                                            *)
SubmitSuccess(s) ==
    /\ s \in inflight
    /\ inflight' = inflight \ {s}
    /\ phase' = IF phase \in {"open", "closed"} THEN "closed" ELSE phase
    /\ UNCHANGED <<values, disabled, nsub, nuser>>

\* Mutant of SubmitFailure: the OK button is not enabled again.
SubmitFailureNoReenable(s) ==
    /\ s \in inflight
    /\ inflight' = inflight \ {s}
    /\ UNCHANGED <<phase, values, disabled, nsub, nuser>>

(* onFailure (lines 1015-1021): the dialog's OK button is enabled again. *)
SubmitFailure(s) ==
    /\ s \in inflight
    /\ inflight' = inflight \ {s}
    /\ disabled' = IF phase \in {"open", "closed"} THEN FALSE ELSE disabled
    /\ UNCHANGED <<phase, values, nsub, nuser>>

Next ==
    \/ \E v \in [Fields -> Vals] : LoadSuccess(v)
    \/ LoadNotFound
    \/ LoadFailure
    \/ \E f \in Fields, v \in Vals : Edit(f, v)
    \/ ClickOK
    \/ \E f \in Fields : EnterKey(f)
    \/ Cancel
    \/ \E s \in inflight : SubmitSuccess(s) \/ SubmitFailure(s)

Spec == Init /\ [][Next]_vars

\* The server's answer to the form request.
LoadAnswer == \/ \E v \in [Fields -> Vals] : LoadSuccess(v)
              \/ LoadNotFound
              \/ LoadFailure

(* The server answers every call; the user need not act.                 *)
FairSpec == Spec
            /\ WF_vars(LoadAnswer)
            /\ WF_vars(\E s \in inflight : SubmitSuccess(s) \/ SubmitFailure(s))

-----------------------------------------------------------------------------
(* Properties *)

\* The stage of the dialog the user sees: loading, shown, or gone (never
\* shown, destroyed, or replaced by a failure prompt).
Stage == IF phase = "loading" THEN "loading"
         ELSE IF phase = "open" THEN "rendered" ELSE "over"

Contract == INSTANCE FormContract
            WITH Data <- [Fields -> Vals], NoData <- EmptyData, Valid <- Valid,
                 stage <- Stage, pending <- inflight, sent <- nsub

(* The form implements the dialog contract of spec 4.3: the load ends in *)
(* a shown dialog, an empty submission (404) or a failure prompt; the    *)
(* dialog submits only data that passes doValidate, whether by OK or by  *)
(* Enter; onCancel and onSuccess destroy it for good, and onFailure     *)
(* leaves it as it is.  Edits and the OK button are invisible to it.     *)
ContractRefined == Contract!Spec

(* At most one submission of the form is in flight: the OK button is    *)
(* disabled on submit "to prevent double submits" (spec 4.3).            *)
NoConcurrentSubmit ==
    Cardinality(inflight) <= 1

(* No submitted required field is blank: the trim at line 926 is meant  *)
(* to reject a value of spaces (spec: f_required is a non-empty check).  *)
SubmittedRequiredNonBlank ==
    \A s \in inflight : s.data # EmptyData =>
        \A f \in Fields : Required[f] => Trim(s.data[f]) # "empty"

(* Every submission is answered, and the user is then left either with   *)
(* the dialog closed or with an enabled OK button to retry.              *)
SubmissionResolves ==
    (inflight # {}) ~> (inflight = {} /\ (phase # "open" \/ ~disabled))
=============================================================================
