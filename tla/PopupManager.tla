---------------------------- MODULE PopupManager ----------------------------
(***************************************************************************)
(* Activiti.widget.PopupManager (activiti-widget.js, lines 14-463): one    *)
(* object shared by every component of the page.  It shows transient      *)
(* messages, prompts, error prompts and getUserInput dialogs.  Each popup *)
(* takes the next value of the shared zIndex counter.  A message with a   *)
(* positive displayTime is destroyed by a timer after it is shown.        *)
(*                                                                         *)
(* Two more pieces of state outlive a call: the default configurations,   *)
(* whose button arrays YAHOO.lang.merge shares with every call (the merge *)
(* is shallow), and the ESC key listeners that getUserInput enables on    *)
(* document and never disables.                                           *)
(*                                                                         *)
(* The texts, titles, icons and effects are left out.  A call is          *)
(* abstracted to what changes state: whether its text is undefined, its   *)
(* displayTime, its okButtonText and the buttons it passes.               *)
(***************************************************************************)
EXTENDS Naturals, Sequences

CONSTANTS
    Labels,     \* okButtonText values callers pass to getUserInput
    Times,      \* displayTime values callers pass to displayMessage
    None,       \* null / an option not given
    MaxCalls    \* bound on the calls made to the popup manager

ASSUME PopupAssumption ==
    /\ Times \subseteq Nat
    /\ None \notin Labels \cup {"ok", "caller"}
    /\ MaxCalls \in Nat

VARIABLES
    zIndex,      \* the zIndex property, incremented by every popup
    promptOk,    \* defaultDisplayPromptConfig.buttons[0].text
    inputOk,     \* defaultGetUserInputConfig.buttons[0].text
    inputCancel, \* defaultGetUserInputConfig.buttons[1].text
    popups,      \* every popup created, in creation order
    esc,         \* the popups whose ESC key listener is enabled
    ncalls       \* calls made so far

vars == <<zIndex, promptOk, inputOk, inputCancel, popups, esc, ncalls>>

\* How a getUserInput call passes its buttons: not at all (the defaults),
\* an array of its own, or an empty array.
ButtonArgs == {"default", "custom", "empty"}

\* A popup: its kind, its z-index, whether it is in the document, its
\* displayTime, whether a fade-out timer is pending, the label of its OK
\* button (the caller's own label is "caller"), and the okButtonText and
\* the buttons it was asked with.
Popup ==
    [kind : {"message"}, z : Nat, live : BOOLEAN, time : Times, hide : BOOLEAN,
     ok : {None}, asked : {None}, buttons : {"default"}]
    \cup
    [kind : {"error"}, z : Nat, live : BOOLEAN, time : {0}, hide : {FALSE},
     ok : {None}, asked : {None}, buttons : {"default"}]
    \cup
    [kind : {"prompt"}, z : Nat, live : BOOLEAN, time : {0}, hide : {FALSE},
     ok : {"ok", "caller"}, asked : {None}, buttons : {"default", "custom"}]
    \cup
    [kind : {"input"}, z : Nat, live : BOOLEAN, time : {0}, hide : {FALSE},
     ok : Labels \cup {"ok", "caller"}, asked : Labels \cup {None},
     buttons : {"default", "custom"}]

TypeOK ==
    /\ zIndex \in Nat
    /\ promptOk \in {None, "ok"}
    /\ inputOk \in Labels \cup {None, "ok"}
    /\ inputCancel \in {None, "cancel"}
    /\ popups \in Seq(Popup)
    /\ esc \subseteq 1..Len(popups)
    /\ ncalls \in Nat

(* The object literal (lines 22-50, 147-170, 243-277): zIndex 15 and the *)
(* button texts null, "too early to localize".                           *)
Init ==
    /\ zIndex = 15
    /\ promptOk = None
    /\ inputOk = None
    /\ inputCancel = None
    /\ popups = <<>>
    /\ esc = {}
    /\ ncalls = 0

\* A call of the popup manager, within the bound.
Call ==
    /\ ncalls < MaxCalls
    /\ ncalls' = ncalls + 1

\* A new popup in the document, with the next z-index.
Open(p) ==
    /\ popups' = Append(popups, p)
    /\ zIndex' = zIndex + 1

\* Mutant of DisplayMessage: the fade-out is subscribed to "show" after
\* show() has fired it, so no timer is ever started.
DisplayMessageShowFirst(undef, time) ==
    /\ Call
    /\ IF undef
       THEN UNCHANGED <<zIndex, popups>>
       ELSE Open([kind |-> "message", z |-> zIndex, live |-> TRUE, time |-> time,
                  hide |-> FALSE, ok |-> None, asked |-> None, buttons |-> "default"])
    /\ UNCHANGED <<promptOk, inputOk, inputCancel, esc>>

(* displayMessage (lines 72-124): an undefined text throws before the    *)
(* z-index is taken; otherwise the message is rendered and shown, and a  *)
(* positive displayTime subscribes the fade-out to "show" before show(). *)
DisplayMessage(undef, time) ==
    /\ Call
    /\ IF undef
       THEN UNCHANGED <<zIndex, popups>>
       ELSE Open([kind |-> "message", z |-> zIndex, live |-> TRUE, time |-> time,
                  hide |-> time > 0, ok |-> None, asked |-> None, buttons |-> "default"])
    /\ UNCHANGED <<promptOk, inputOk, inputCancel, esc>>

\* destroy() of a YUI container: the popup leaves the document, and a
\* pending fade-out has nothing left to do.
Destroy(p) == [kind |-> p.kind, z |-> p.z, live |-> FALSE, time |-> p.time,
               hide |-> FALSE, ok |-> p.ok, asked |-> p.asked, buttons |-> p.buttons]

(* _delayPopupHide (lines 133-139): the timer started on "show" destroys *)
(* the message.                                                          *)
Expire(i) ==
    /\ i \in 1..Len(popups)
    /\ popups[i].hide
    /\ popups' = [popups EXCEPT ![i] = Destroy(popups[i])]
    /\ UNCHANGED <<zIndex, promptOk, inputOk, inputCancel, esc, ncalls>>

(* displayPrompt (lines 197-252), and displayError (254-263), which      *)
(* passes close: true and an empty button array.  The default OK text is *)
(* localized first; an undefined text then throws before the z-index is *)
(* taken.                                                               *)
DisplayPrompt(kind, undef, custom) ==
    /\ Call
    /\ promptOk' = "ok"
    /\ IF undef
       THEN UNCHANGED <<zIndex, popups>>
       ELSE Open([kind |-> kind, z |-> zIndex, live |-> TRUE, time |-> 0,
                  hide |-> FALSE, ok |-> IF kind = "error" THEN None
                         ELSE IF custom THEN "caller" ELSE "ok",
                  asked |-> None,
                  buttons |-> IF custom /\ kind = "prompt" THEN "custom" ELSE "default"])
    /\ UNCHANGED <<inputOk, inputCancel, esc>>

\* The default OK text after the lazy localization of lines 332-339.
LocalizedOk == IF inputOk = None THEN "ok" ELSE inputOk

\* Mutant of GetUserInput: the lazy localization of the OK text is missing.
GetUserInputNoLocalize(label, buttons) ==
    /\ Call
    /\ inputCancel' = "cancel"
    /\ zIndex' = zIndex + 1
    /\ IF buttons = "empty"
       THEN UNCHANGED <<inputOk, popups, esc>>
       ELSE /\ inputOk' = IF label # None /\ buttons = "default" THEN label ELSE inputOk
            /\ popups' = Append(popups,
                 [kind |-> "input", z |-> zIndex, live |-> TRUE, time |-> 0,
                  hide |-> FALSE, ok |-> IF buttons = "default" THEN inputOk'
                         ELSE IF label # None THEN label ELSE "caller",
                  asked |-> label, buttons |-> buttons])
            /\ esc' = esc \cup {Len(popups) + 1}
    /\ UNCHANGED promptOk

\* Mutant of GetUserInput: the dialog reads zIndex without incrementing it.
GetUserInputSameZ(label, buttons) ==
    /\ Call
    /\ inputCancel' = "cancel"
    /\ UNCHANGED zIndex
    /\ IF buttons = "empty"
       THEN /\ inputOk' = LocalizedOk
            /\ UNCHANGED <<popups, esc>>
       ELSE /\ inputOk' = IF label # None /\ buttons = "default" THEN label ELSE LocalizedOk
            /\ popups' = Append(popups,
                 [kind |-> "input", z |-> zIndex, live |-> TRUE, time |-> 0,
                  hide |-> FALSE, ok |-> IF buttons = "default" THEN inputOk'
                         ELSE IF label # None THEN label ELSE "caller",
                  asked |-> label, buttons |-> buttons])
            /\ esc' = esc \cup {Len(popups) + 1}
    /\ UNCHANGED promptOk

(* getUserInput (lines 330-461).  Both default texts are localized and   *)
(* the dialog takes the next z-index.  c.buttons is the caller's array,  *)
(* or, by the shallow merge, the default array itself: okButtonText is   *)
(* written into it (line 392) and stays there for later calls.  An empty *)
(* array throws a TypeError at line 392 or 398, before the dialog is     *)
(* rendered.  Otherwise the dialog is shown and an ESC listener that     *)
(* destroys it is enabled on document (lines 441-453).                   *)
GetUserInput(label, buttons) ==
    /\ Call
    /\ inputCancel' = "cancel"
    /\ zIndex' = zIndex + 1
    /\ IF buttons = "empty"
       THEN /\ inputOk' = LocalizedOk
            /\ UNCHANGED <<popups, esc>>
       ELSE /\ inputOk' = IF label # None /\ buttons = "default" THEN label ELSE LocalizedOk
            /\ popups' = Append(popups,
                 [kind |-> "input", z |-> zIndex, live |-> TRUE, time |-> 0,
                  hide |-> FALSE, ok |-> IF buttons = "default" THEN inputOk'
                         ELSE IF label # None THEN label ELSE "caller",
                  asked |-> label, buttons |-> buttons])
            /\ esc' = esc \cup {Len(popups) + 1}
    /\ UNCHANGED promptOk

(* A button of a prompt or dialog, or the close icon of an error, is     *)
(* clicked: the default handlers (lines 165-168, 272-275, 401-414)       *)
(* destroy the dialog.                                                   *)
Close(i) ==
    /\ i \in 1..Len(popups)
    /\ popups[i].live
    /\ popups[i].kind \in {"prompt", "error", "input"}
    /\ popups' = [popups EXCEPT ![i] = Destroy(popups[i])]
    /\ UNCHANGED <<zIndex, promptOk, inputOk, inputCancel, esc, ncalls>>

(* The ESC key: every listener ever enabled calls destroy() on its       *)
(* dialog, whichever dialog is on top; on a dialog already destroyed it  *)
(* changes nothing.                                                      *)
Escape ==
    /\ \E i \in esc : popups[i].live
    /\ popups' = [i \in 1..Len(popups) |->
                    IF i \in esc THEN Destroy(popups[i]) ELSE popups[i]]
    /\ UNCHANGED <<zIndex, promptOk, inputOk, inputCancel, esc, ncalls>>

Next ==
    \/ \E undef \in BOOLEAN, time \in Times : DisplayMessage(undef, time)
    \/ \E i \in 1..Len(popups) : Expire(i) \/ Close(i)
    \/ \E kind \in {"prompt", "error"}, undef, custom \in BOOLEAN :
          DisplayPrompt(kind, undef, custom)
    \/ \E label \in Labels \cup {None}, buttons \in ButtonArgs : GetUserInput(label, buttons)
    \/ Escape

Spec == Init /\ [][Next]_vars

(* YAHOO.lang.later fires every timer it started; users need not act.    *)
FairSpec == Spec /\ \A i \in 1..MaxCalls : WF_vars(Expire(i))

-----------------------------------------------------------------------------
(* Properties *)

(* Every popup lies above every popup created before it, and the counter *)
(* is above them all, so the next popup will be on top (spec 4.1:        *)
(* strictly increasing stacking priority; displayMessage, displayPrompt  *)
(* and getUserInput each take zIndex++).                                 *)
NewestOnTop ==
    \A i \in 1..Len(popups) :
        /\ popups[i].z < zIndex
        /\ \A j \in 1..Len(popups) : i < j => popups[i].z < popups[j].z

(* A message shown with a positive displayTime is eventually destroyed   *)
(* (spec 4.1: it auto-dismisses after the delay); the timer is started   *)
(* by the "show" subscription of line 114, made before show().           *)
MessagesExpire ==
    \A i \in 1..MaxCalls :
        (i \in 1..Len(popups) /\ popups[i].live /\ popups[i].kind = "message"
         /\ popups[i].time > 0) ~> ~(i \in 1..Len(popups) /\ popups[i].live)

(* A getUserInput dialog opened with the default buttons and no          *)
(* okButtonText shows the default OK label (spec 4.1: the popup service  *)
(* is stateless between calls except for the stacking counter).          *)
OkLabelIsDefault ==
    \A i \in 1..Len(popups) :
        popups[i].kind = "input" /\ popups[i].buttons = "default"
        /\ popups[i].asked = None
        => popups[i].ok = "ok"
=============================================================================
