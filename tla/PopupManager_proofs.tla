------------------------- MODULE PopupManager_proofs -------------------------
(***************************************************************************)
(* Proofs that every behaviour of PopupManager keeps its type and stacks   *)
(* each popup above all earlier ones, for all labels, display times and   *)
(* call bounds.                                                            *)
(***************************************************************************)
EXTENDS PopupManager, SequenceTheorems, TLAPS

\* The inductive invariant: the stacking order needs the types of z and
\* of the counter.
IInv == TypeOK /\ NewestOnTop

USE PopupAssumption

LEMMA InitIInv == Init => IInv
BY DEF Init, IInv, TypeOK, NewestOnTop

\* destroy() keeps a popup well typed and at its z-index.
LEMMA DestroyType ==
    ASSUME NEW p \in Popup
    PROVE  Destroy(p) \in Popup /\ Destroy(p).z = p.z
BY DEF Destroy, Popup

\* Every z-index is a number.
LEMMA ZNat ==
    ASSUME TypeOK
    PROVE  \A i \in 1..Len(popups) : popups[i].z \in Nat
<1>1. popups \in Seq(Popup)
  BY DEF TypeOK
<1>2. \A i \in 1..Len(popups) : popups[i] \in Popup
  BY <1>1
<1>3. QED
  BY <1>2 DEF Popup

\* A step that keeps the counter and every z-index keeps the order.
LEMMA SameStacking ==
    ASSUME IInv, zIndex' = zIndex, popups' \in Seq(Popup),
           Len(popups') = Len(popups),
           \A i \in 1..Len(popups) : popups'[i].z = popups[i].z
    PROVE  NewestOnTop'
BY DEF IInv, NewestOnTop

\* A popup opened with the current counter goes on top.
LEMMA OpenStacking ==
    ASSUME IInv, NEW p \in Popup, p.z = zIndex, Open(p)
    PROVE  /\ popups' \in Seq(Popup)
           /\ Len(popups') = Len(popups) + 1
           /\ zIndex' \in Nat
           /\ NewestOnTop'
<1>1. /\ popups \in Seq(Popup) /\ zIndex \in Nat
      /\ \A i \in 1..Len(popups) : popups[i].z \in Nat
  BY ZNat DEF IInv, TypeOK
<1>2. /\ popups' \in Seq(Popup)
      /\ Len(popups') = Len(popups) + 1
      /\ \A i \in 1..Len(popups) : popups'[i] = popups[i]
      /\ popups'[Len(popups) + 1] = p
  BY <1>1, AppendProperties DEF Open
<1>3. NewestOnTop'
  <2> SUFFICES ASSUME NEW i \in 1..Len(popups')
               PROVE  /\ popups'[i].z < zIndex'
                      /\ \A j \in 1..Len(popups') : i < j => popups'[i].z < popups'[j].z
    BY DEF NewestOnTop
  <2>1. CASE i \in 1..Len(popups)
    BY <1>1, <1>2, <2>1 DEF Open, IInv, NewestOnTop
  <2>2. CASE i = Len(popups) + 1
    BY <1>1, <1>2, <2>2 DEF Open
  <2>3. QED
    BY <1>1, <1>2, <2>1, <2>2
<1>4. QED
  BY <1>1, <1>2, <1>3 DEF Open

\* Popup i destroyed, the others unchanged.
LEMMA DestroyOne ==
    ASSUME IInv, NEW i \in 1..Len(popups),
           popups' = [popups EXCEPT ![i] = Destroy(popups[i])],
           UNCHANGED zIndex
    PROVE  /\ popups' \in Seq(Popup) /\ Len(popups') = Len(popups)
           /\ NewestOnTop'
<1>1. popups \in Seq(Popup) /\ popups[i] \in Popup
  BY DEF IInv, TypeOK
<1>2. Destroy(popups[i]) \in Popup /\ Destroy(popups[i]).z = popups[i].z
  BY <1>1, DestroyType
<1>3. /\ popups' \in Seq(Popup) /\ Len(popups') = Len(popups)
      /\ \A j \in 1..Len(popups) : popups'[j] = IF j = i THEN Destroy(popups[i]) ELSE popups[j]
  BY <1>1, <1>2, ExceptSeq
<1>4. \A j \in 1..Len(popups) : popups'[j].z = popups[j].z
  BY <1>2, <1>3
<1>5. QED
  BY <1>3, <1>4, SameStacking

LEMMA DisplayMessageIInv ==
    ASSUME IInv, NEW undef \in BOOLEAN, NEW time \in Times, DisplayMessage(undef, time)
    PROVE  IInv'
<1>1. CASE undef
  BY <1>1 DEF DisplayMessage, Call, IInv, TypeOK, NewestOnTop
<1>2. CASE ~undef
  <2> DEFINE p == [kind |-> "message", z |-> zIndex, live |-> TRUE, time |-> time,
                   hide |-> time > 0, ok |-> None, asked |-> None, buttons |-> "default"]
  <2>1. zIndex \in Nat
    BY DEF IInv, TypeOK
  <2>2. p \in Popup
    BY <2>1 DEF Popup
  <2>3. Open(p)
    BY <1>2 DEF DisplayMessage
  <2>4. /\ popups' \in Seq(Popup) /\ Len(popups') = Len(popups) + 1
        /\ zIndex' \in Nat /\ NewestOnTop'
    BY <2>2, <2>3, OpenStacking
  <2>5. QED
    BY <2>4 DEF DisplayMessage, Call, IInv, TypeOK
<1>3. QED
  BY <1>1, <1>2

LEMMA DisplayPromptIInv ==
    ASSUME IInv, NEW kind \in {"prompt", "error"}, NEW undef \in BOOLEAN,
           NEW custom \in BOOLEAN, DisplayPrompt(kind, undef, custom)
    PROVE  IInv'
<1>1. CASE undef
  BY <1>1 DEF DisplayPrompt, Call, IInv, TypeOK, NewestOnTop
<1>2. CASE ~undef
  <2> DEFINE p == [kind |-> kind, z |-> zIndex, live |-> TRUE, time |-> 0,
                   hide |-> FALSE, ok |-> IF kind = "error" THEN None
                                          ELSE IF custom THEN "caller" ELSE "ok",
                   asked |-> None,
                   buttons |-> IF custom /\ kind = "prompt" THEN "custom" ELSE "default"]
  <2>1. zIndex \in Nat
    BY DEF IInv, TypeOK
  <2>2. p \in Popup
    BY <2>1 DEF Popup
  <2>3. Open(p)
    BY <1>2 DEF DisplayPrompt
  <2>4. /\ popups' \in Seq(Popup) /\ Len(popups') = Len(popups) + 1
        /\ zIndex' \in Nat /\ NewestOnTop'
    BY <2>2, <2>3, OpenStacking
  <2>5. QED
    BY <2>4 DEF DisplayPrompt, Call, IInv, TypeOK
<1>3. QED
  BY <1>1, <1>2

LEMMA GetUserInputIInv ==
    ASSUME IInv, NEW label \in Labels \cup {None}, NEW buttons \in ButtonArgs,
           GetUserInput(label, buttons)
    PROVE  IInv'
<1>1. LocalizedOk \in Labels \cup {"ok"}
  BY DEF LocalizedOk, IInv, TypeOK
<1>2. CASE buttons = "empty"
  <2>1. \A i \in 1..Len(popups) : popups[i].z \in Nat
    BY ZNat DEF IInv
  <2>2. NewestOnTop'
    BY <1>2, <2>1 DEF GetUserInput, IInv, TypeOK, NewestOnTop
  <2>3. /\ inputOk' = LocalizedOk /\ popups' = popups /\ esc' = esc
        /\ zIndex' = zIndex + 1 /\ inputCancel' = "cancel"
        /\ promptOk' = promptOk /\ ncalls' = ncalls + 1
    BY <1>2 DEF GetUserInput, Call
  <2>4. QED
    BY <1>1, <2>2, <2>3 DEF IInv, TypeOK
<1>3. CASE buttons # "empty"
  <2> DEFINE p == [kind |-> "input", z |-> zIndex, live |-> TRUE, time |-> 0,
                   hide |-> FALSE, ok |-> IF buttons = "default" THEN inputOk'
                                          ELSE IF label # None THEN label ELSE "caller",
                   asked |-> label, buttons |-> buttons]
  <2>1. zIndex \in Nat /\ popups \in Seq(Popup)
    BY DEF IInv, TypeOK
  <2>2. inputOk' = IF label # None /\ buttons = "default" THEN label ELSE LocalizedOk
    BY <1>3 DEF GetUserInput
  <2>3. inputOk' \in Labels \cup {"ok"}
    BY <1>1, <2>2
  <2>4. p \in Popup
    BY <1>3, <2>1, <2>3 DEF Popup, ButtonArgs
  <2>5. Open(p)
    BY <1>3 DEF GetUserInput, Open
  <2>6. /\ popups' \in Seq(Popup) /\ Len(popups') = Len(popups) + 1
        /\ zIndex' \in Nat /\ NewestOnTop'
    BY <2>4, <2>5, OpenStacking
  <2>7. /\ esc' = esc \cup {Len(popups) + 1} /\ inputCancel' = "cancel"
        /\ promptOk' = promptOk /\ ncalls' = ncalls + 1
    BY <1>3 DEF GetUserInput, Call
  <2>8. esc' \subseteq 1..Len(popups')
    <3>1. Len(popups) \in Nat /\ esc \subseteq 1..Len(popups)
      BY <2>1 DEF IInv, TypeOK
    <3>2. \A k \in esc \cup {Len(popups) + 1} : k \in 1..(Len(popups) + 1)
      BY <3>1
    <3>3. QED
      BY <3>2, <2>6, <2>7, Zenon
  <2>9. QED
    BY <2>3, <2>6, <2>7, <2>8 DEF IInv, TypeOK
<1>4. QED
  BY <1>2, <1>3

LEMMA ExpireIInv ==
    ASSUME IInv, NEW i \in 1..Len(popups), Expire(i)
    PROVE  IInv'
<1>1. /\ popups' \in Seq(Popup) /\ Len(popups') = Len(popups)
      /\ NewestOnTop'
  BY DestroyOne DEF Expire
<1>2. QED
  BY <1>1 DEF Expire, IInv, TypeOK

LEMMA CloseIInv ==
    ASSUME IInv, NEW i \in 1..Len(popups), Close(i)
    PROVE  IInv'
<1>1. /\ popups' \in Seq(Popup) /\ Len(popups') = Len(popups)
      /\ NewestOnTop'
  BY DestroyOne DEF Close
<1>2. QED
  BY <1>1 DEF Close, IInv, TypeOK

LEMMA EscapeIInv ==
    ASSUME IInv, Escape
    PROVE  IInv'
<1>1. popups \in Seq(Popup)
  BY DEF IInv, TypeOK
<1>2. \A i \in 1..Len(popups) :
         /\ (IF i \in esc THEN Destroy(popups[i]) ELSE popups[i]) \in Popup
         /\ (IF i \in esc THEN Destroy(popups[i]) ELSE popups[i]).z = popups[i].z
  BY <1>1, DestroyType
<1>3. /\ popups' \in Seq(Popup) /\ Len(popups') = Len(popups)
      /\ \A i \in 1..Len(popups) : popups'[i].z = popups[i].z
  <2>1. Len(popups) \in Nat
    BY <1>1
  <2>2. popups' \in Seq(Popup)
    BY <1>2, <2>1, IsASeq DEF Escape
  <2>3. QED
    BY <1>2, <2>1, <2>2 DEF Escape
<1>4. NewestOnTop'
  BY <1>3, SameStacking DEF Escape
<1>5. QED
  BY <1>3, <1>4 DEF Escape, IInv, TypeOK

LEMMA StepIInv == IInv /\ [Next]_vars => IInv'
<1> SUFFICES ASSUME IInv, [Next]_vars PROVE IInv'
  OBVIOUS
<1>1. CASE \E undef \in BOOLEAN, time \in Times : DisplayMessage(undef, time)
  BY <1>1, DisplayMessageIInv
<1>2. CASE \E i \in 1..Len(popups) : Expire(i) \/ Close(i)
  BY <1>2, ExpireIInv, CloseIInv
<1>3. CASE \E kind \in {"prompt", "error"}, undef, custom \in BOOLEAN :
              DisplayPrompt(kind, undef, custom)
  BY <1>3, DisplayPromptIInv
<1>4. CASE \E label \in Labels \cup {None}, buttons \in ButtonArgs : GetUserInput(label, buttons)
  BY <1>4, GetUserInputIInv
<1>5. CASE Escape
  BY <1>5, EscapeIInv
<1>6. CASE UNCHANGED vars
  BY <1>6 DEF vars, IInv, TypeOK, NewestOnTop
<1>7. QED
  BY <1>1, <1>2, <1>3, <1>4, <1>5, <1>6 DEF Next

LEMMA IInvariant == Spec => []IInv
BY InitIInv, StepIInv, PTL DEF Spec

(* Every reachable state of the popup manager is well typed: each kind   *)
(* of popup has the buttons its function gives it, and every OK button   *)
(* has a label, localized before the first dialog is rendered.           *)
THEOREM PopupTypeCorrect == Spec => []TypeOK
BY IInvariant, PTL DEF IInv

(* For every bound and every mix of calls, clicks, ESC presses and       *)
(* timers, each popup is stacked above all earlier ones and below the    *)
(* next (spec 4.1; the zIndex++ of lines 95, 222 and 387).               *)
THEOREM StackingOrder == Spec => []NewestOnTop
BY IInvariant, PTL DEF IInv

=============================================================================
