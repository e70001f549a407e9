----------------------------- MODULE Form_proofs -----------------------------
(***************************************************************************)
(* Proofs that every behaviour of Form keeps its type and implements the  *)
(* dialog contract of FormContract, for every set of fields, kinds,       *)
(* metadata and values.                                                    *)
(***************************************************************************)
EXTENDS Form, TLAPS

\* Every submission sent passes doValidate, or is the empty form of a 404:
\* onSubmit validates before doSubmit (lines 890-893).  The type needs it,
\* since the data of a submission is a variable set of the form.
SubmittedDataValid ==
    \A s \in inflight : s.data = EmptyData \/ Valid(s.data)

\* The inductive invariant: the type and the validity of what is sent.
IInv == TypeOK /\ SubmittedDataValid

LEMMA InitIInv == Init => IInv
<1>1. Init => TypeOK
  <2> SUFFICES ASSUME Init PROVE TypeOK
    OBVIOUS
  <2>1. values \in [Fields -> Vals]
    BY FormAssumption DEF Init
  <2>2. phase \in {"loading", "open", "closed", "noform", "failed"}
    BY DEF Init
  <2>3. inflight \subseteq Submission
    BY DEF Init
  <2>4. QED
    BY <2>1, <2>2, <2>3, Zenon DEF Init, TypeOK
<1>2. Init => SubmittedDataValid
  BY DEF Init, SubmittedDataValid
<1>3. QED
  BY <1>1, <1>2 DEF IInv

(* A submission of valid data keeps both conjuncts.                      *)
LEMMA DoSubmitIInv ==
    ASSUME IInv, NEW data \in [Fields -> Vals] \cup {EmptyData},
           data = EmptyData \/ Valid(data), DoSubmit(data)
    PROVE  inflight' \subseteq Submission /\ nsub' \in Nat
           /\ \A s \in inflight' : s.data = EmptyData \/ Valid(s.data)
BY DEF IInv, TypeOK, SubmittedDataValid, DoSubmit, Submission

LEMMA OnSubmitIInv ==
    ASSUME IInv, OnSubmit, phase' = phase, values' = values, nuser' = nuser + 1
    PROVE  IInv'
<1>1. CASE Valid(values)
  <2>1. inflight' \subseteq Submission /\ nsub' \in Nat
        /\ \A s \in inflight' : s.data = EmptyData \/ Valid(s.data)
    BY <1>1, DoSubmitIInv DEF OnSubmit, IInv, TypeOK
  <2>2. QED
    BY <2>1 DEF OnSubmit, IInv, TypeOK, SubmittedDataValid
<1>2. CASE ~Valid(values)
  BY <1>2 DEF OnSubmit, IInv, TypeOK, SubmittedDataValid
<1>3. QED
  BY <1>1, <1>2

LEMMA StepIInv == IInv /\ [Next]_vars => IInv'
<1> SUFFICES ASSUME IInv, [Next]_vars PROVE IInv'
  OBVIOUS
<1>1. CASE \E v \in [Fields -> Vals] : LoadSuccess(v)
  BY <1>1 DEF LoadSuccess, IInv, TypeOK, SubmittedDataValid
<1>2. CASE LoadNotFound
  <2>1. inflight' \subseteq Submission /\ nsub' \in Nat
        /\ \A s \in inflight' : s.data = EmptyData \/ Valid(s.data)
    BY <1>2, DoSubmitIInv DEF LoadNotFound
  <2>2. QED
    BY <1>2, <2>1 DEF LoadNotFound, IInv, TypeOK, SubmittedDataValid
<1>3. CASE LoadFailure
  BY <1>3 DEF LoadFailure, IInv, TypeOK, SubmittedDataValid
<1>4. CASE \E f \in Fields, v \in Vals : Edit(f, v)
  <2>1. PICK f \in Fields, v \in Vals : Edit(f, v)
    BY <1>4
  <2>2. values' \in [Fields -> Vals]
    BY <2>1 DEF Edit, IInv, TypeOK
  <2>3. disabled' \in BOOLEAN
    BY <2>1, Zenon DEF Edit, IInv, TypeOK
  <2>4. QED
    BY <2>1, <2>2, <2>3 DEF Edit, IInv, TypeOK, SubmittedDataValid
<1>5. CASE ClickOK
  BY <1>5, OnSubmitIInv DEF ClickOK
<1>6. CASE \E f \in Fields : EnterKey(f)
  BY <1>6, OnSubmitIInv DEF EnterKey
<1>7. CASE Cancel
  BY <1>7 DEF Cancel, IInv, TypeOK, SubmittedDataValid
<1>8. CASE \E s \in inflight : SubmitSuccess(s) \/ SubmitFailure(s)
  BY <1>8 DEF SubmitSuccess, SubmitFailure, IInv, TypeOK, SubmittedDataValid
<1>9. CASE UNCHANGED vars
  BY <1>9 DEF vars, IInv, TypeOK, SubmittedDataValid
<1>10. QED
  BY <1>1, <1>2, <1>3, <1>4, <1>5, <1>6, <1>7, <1>8, <1>9 DEF Next

LEMMA IInvariant == Spec => []IInv
BY InitIInv, StepIInv, PTL DEF Spec

(* Every reachable state of the form is well typed.                       *)
THEOREM FormTypeCorrect == Spec => []TypeOK
BY IInvariant, PTL DEF IInv

-----------------------------------------------------------------------------
(* The refinement of FormContract.  Every step of the form is a step of  *)
(* the contract or leaves its stage, pending set and count unchanged.    *)

LEMMA InitContract == Init => Contract!Init
BY DEF Init, Contract!Init, Stage

\* doSubmit of d is the contract's submission of d.
LEMMA DoSubmitContract ==
    ASSUME NEW d, DoSubmit(d)
    PROVE  Contract!Submit(d)
BY DEF DoSubmit, Contract!Submit

LEMMA OnSubmitContract ==
    ASSUME IInv, phase = "open", OnSubmit, UNCHANGED phase
    PROVE  [Contract!Next]_Contract!vars
<1>1. CASE Valid(values)
  <2>1. values \in [Fields -> Vals]
    BY DEF IInv, TypeOK
  <2>2. Contract!Confirm(values)
    BY <1>1, DoSubmitContract DEF OnSubmit, Contract!Confirm, Stage
  <2>3. QED
    BY <2>1, <2>2 DEF Contract!Next
<1>2. CASE ~Valid(values)
  BY <1>2 DEF OnSubmit, Contract!vars, Stage
<1>3. QED
  BY <1>1, <1>2

LEMMA StepContract == IInv /\ [Next]_vars => [Contract!Next]_Contract!vars
<1> SUFFICES ASSUME IInv, [Next]_vars PROVE [Contract!Next]_Contract!vars
  OBVIOUS
<1>1. CASE \E v \in [Fields -> Vals] : LoadSuccess(v)
  BY <1>1 DEF LoadSuccess, Contract!Next, Contract!Render, Stage
<1>2. CASE LoadNotFound
  <2>1. Contract!Submit(EmptyData)
    BY <1>2, DoSubmitContract DEF LoadNotFound
  <2>2. QED
    BY <1>2, <2>1 DEF LoadNotFound, Contract!Next, Contract!NoForm, Stage
<1>3. CASE LoadFailure
  BY <1>3 DEF LoadFailure, Contract!Next, Contract!LoadFail, Stage
<1>4. CASE \E f \in Fields, v \in Vals : Edit(f, v)
  BY <1>4 DEF Edit, Contract!vars, Stage
<1>5. CASE ClickOK
  BY <1>5, OnSubmitContract DEF ClickOK
<1>6. CASE \E f \in Fields : EnterKey(f)
  BY <1>6, OnSubmitContract DEF EnterKey
<1>7. CASE Cancel
  BY <1>7 DEF Cancel, Contract!Next, Contract!Teardown, Stage
<1>8. ASSUME NEW s \in inflight, SubmitSuccess(s) PROVE [Contract!Next]_Contract!vars
  <2>1. Contract!Succeed(s)
    BY <1>8 DEF SubmitSuccess, Contract!Succeed, Stage
  <2>2. QED
    BY <2>1 DEF Contract!Next
<1>9. ASSUME NEW s \in inflight, SubmitFailure(s) PROVE [Contract!Next]_Contract!vars
  <2>1. Contract!Fail(s)
    BY <1>9 DEF SubmitFailure, Contract!Fail, Stage
  <2>2. QED
    BY <2>1 DEF Contract!Next
<1>10. CASE UNCHANGED vars
  BY <1>10 DEF vars, Contract!vars, Stage
<1>11. QED
  BY <1>1, <1>2, <1>3, <1>4, <1>5, <1>6, <1>7, <1>8, <1>9, <1>10 DEF Next

(* The form implements the dialog contract of spec 4.3 for every set of  *)
(* fields, kinds, metadata and values: it submits only from a shown      *)
(* dialog and only valid data (or the empty set after a 404), and a      *)
(* destroyed dialog is never shown or submitted from again.              *)
THEOREM ContractRefinement == Spec => ContractRefined
<1>1. Spec => [][Contract!Next]_Contract!vars
  BY IInvariant, StepContract, PTL DEF Spec
<1>2. QED
  BY <1>1, InitContract, PTL DEF Spec, ContractRefined, Contract!Spec

=============================================================================
