# TLA+ models of the Activiti web widgets

This directory holds TLA+ models of the browser-side widgets of the Activiti web
applications under `src/`, the TLC configurations that check them, and TLAPS
proofs of their main invariants.

## The system

The code under `src/` is a set of JavaScript widgets built on YUI 2. They talk
to each other through the `Activiti.event` bus and to the server through
asynchronous service calls.

| Part | Source | What it does |
|---|---|---|
| `Activiti.widget.PopupManager` | `activiti-5.0.alpha2/.../js/activiti-widget.js` 14-463 | Messages, prompts, errors and `getUserInput` dialogs. It keeps a global z-index counter. |
| `Activiti.widget.DataTable` | same file, 465-732 | A paginated, sortable table. It listens to bus events that match a pattern. On each such event it reloads from the server. Sorting and paging publish a new event carrying the table's `owner` id. |
| `Activiti.widget.Form` | same file, 735-1024 | A dialog loaded from the server. It validates fields as they are edited, then submits through `doSubmit`. |
| `StartProcessInstanceForm`, `CompleteTaskForm` | same file, 1027-1114 | Subclasses of Form. They differ only in the service call that `doSubmit` makes. |
| `Activiti.component.Artifact` | `activiti-5.3/.../artifact/artifact.js` | Shows an artifact with its tabs and its comment tree. Three asynchronous loads are in play: the artifact, the tab and the comments. |
| `Activiti.component.Navigation` | `activiti-5.0.alpha3/.../navigation/navigation.js` | A menu. Its one handler creates a `StartProcessInstanceForm`. |
| `getTables` | `activiti-5.0.alpha4/.../activiti.management.lib.js` | A server-side web script that makes one REST call. |

How the parts interact:
- The event bus (`Activiti.event`) is not under `src/`. It is modelled from the spec as a FIFO queue.
- The table both publishes on the bus and consumes from it.
- Other components publish on the same bus.
- The server answers the table's requests in any order, and nothing cancels a pending request.

## Modules

### `DataTable.tla`: the table and its bus

| Model element | Code |
|---|---|
| `curName`, `curValue` | `_currentEventName`, `_currentEventValue` |
| `bus` | Undelivered events on `Activiti.event`. |
| `requests`, `nreq` | Requests sent by `reload` and not yet answered. |
| `rows`, `msg` | What the table shows. |
| `sortedBy`, `pag` | The YUI table's `sortedBy` and its paginator state. |

Actions:
- `FireEvent`: `fireEvent`, reached from `Sort` (`handleSorting`) and from `Page` (`handlePagination`).
- `Accept` and `Ignore`: `onEvent` when the pattern matches and when it does not. `Accept` includes `reload`.
- `RespondSuccess`: `doBeforeLoadData` plus `onDataReturnSetRows`, with YUI's `||` defaults.
- `RespondFailure`: the failure branch of `onDataReturnSetRows`.
- `ExternalFire`: another component publishing on the bus.

The data is abstracted to what the properties tell apart:
- events, filters and sort keys are model values;
- totals come from a small set that includes 0.

### `Form.tla`: the form and both subclasses

| Model element | Code |
|---|---|
| `phase` | `loading`, `open`, `closed`, `noform`, `failed` |
| `values` | What `getData` returns. |
| `disabled` | The OK button. |
| `inflight`, `nsub` | Submissions sent and not yet answered. |
| `nuser` | A bound on user steps. |

Actions:
- Loading ends in one of three ways: `LoadSuccess`, `LoadNotFound` (a 404 submits `{}`), or `LoadFailure`.
- `Edit` is a keyup or change. Only `input` and `select` fields revalidate.
- `ClickOK`, `EnterKey` and `Cancel` are the user's other steps.
- `SubmitSuccess` and `SubmitFailure` are the service's answers.
- `doValidate` is the pair `FieldError`/`Valid`.

Field values are abstracted to the classes that `doValidate` tells apart: `"empty"`, `"spaces"`, `"digits"`, `"mixed"`, `"true"` and `"false"`.

### `FormContract.tla`: what the form promises

The contract is spec 4.3 without the fields, the listeners and the OK button. It has three variables:
- `stage`: `"loading"`, `"rendered"` or `"over"`;
- `pending`: the submissions not yet answered;
- `sent`: the number of submissions so far.

Its actions:
- `Render`, `NoForm` (a 404 submits the empty set) and `LoadFail` end the load.
- `Confirm(d)`: a rendered dialog submits `d`, and only if `Valid(d)`.
- `Teardown`: a cancel.
- `Succeed` tears down a dialog still shown. `Fail` changes nothing else.

`Form` maps onto it through `Contract == INSTANCE FormContract WITH ...`:
- `stage` is `loading`, `rendered` for `open`, and `over` for the other three phases;
- `pending` is `inflight` and `sent` is `nsub`.

`OnSubmit` with valid data is a `Confirm`. With invalid data, and for `Edit`, it is a stutter.

### `Artifact.tla`: the artifact view

| Model element | Code |
|---|---|
| `node` | `_repositoryNodeId`, which is also the id the header carries. |
| `tabView` | The artifact that `this._tabView` was last built for. |
| `div` | The children of `#artifact-div` in document order. A node stands for its tab view; `CommentsDiv` stands for the comments div. |
| `shown` | The node whose comments the comments div holds. |
| `wait` | The modal wait dialog. |
| `pend` | Pending repository service calls. |

Actions:
- `Select` is `onUpdateArtifactView`. A new node removes the *first* div of `#artifact-div`, clears the comments, and loads the node if it is an artifact.
- `LoadArtifactSuccess` and `LoadArtifactAuthError` are `onLoadArtifactSuccess`.
- `LoadCommentsSuccess` and `LoadCommentsAuthError` are `onLoadCommentsSuccess`. `appendChild` moves the comments div to the end. `Detach` takes the div out of the one place it holds, as the DOM does for a node that is already in the document.
- `SaveComment` is the add-comment button and the reply button.
- `SaveSuccess` and `SaveFailure` are the two save handlers.

Not yet modelled: the per-tab content loads and the active tab index.

### `CommentTree.tla`: the comment tree rendering

This module models the loop of `onLoadCommentsSuccess` (lines 316-320) and the recursive `composeCommentHtml` (lines 424-435).

| Model element | Code |
|---|---|
| `comments` | `commentsJson`. A comment is its id and its `answeredCommentId`. |
| `item` | The index of the `for ... in` loop. |
| `html` | The comment divs in document order, as `[id, depth]`. |

Actions:
- `RenderRoot`: an iteration on a comment with no `answeredCommentId`. It appends `ComposeCommentHtml` of that comment.
- `SkipReply`: an iteration on a reply, which renders nothing.

`Init` takes every list of up to `MaxComments` comments with distinct ids and any parents. That covers:
- replies before their comment;
- replies to a comment not in the list;
- replies that answer each other in a cycle.

The reference `RendersReplyTree` defines the tree without recursion. A chain of links from a root gives each comment's membership and depth. It then states the depth-first order. The module declares `RECURSIVE`, so it is used by TLC only.

### `PopupManager.tla`: popups

| Model element | Code |
|---|---|
| `zIndex` | The `zIndex` property (starts at 15). |
| `promptOk`, `inputOk`, `inputCancel` | The button texts of the default configurations. They are `null` until localized on first use. |
| `popups` | Every popup created, in order. Each has its kind, `z`, whether it is in the document, its `displayTime`, whether a fade-out is pending, and its OK label. |
| `esc` | The dialogs whose ESC `KeyListener` is enabled. |

Actions:
- `DisplayMessage`: `displayMessage`. An undefined text throws before `zIndex++`.
- `Expire`: `_delayPopupHide`'s timer.
- `DisplayPrompt`: `displayPrompt` and `displayError`. The text check comes after the lazy localization.
- `GetUserInput`: `getUserInput`.
  - `YAHOO.lang.merge` is shallow, so with the default buttons `c.buttons` *is* the default array, and `okButtonText` is written into it (line 392).
  - An empty `buttons` array throws a TypeError after `zIndex++`.
  - Otherwise an ESC listener is enabled.
- `Close`: a button or the close icon.
- `Escape`: every enabled listener calls `destroy()` on its dialog.

### Proof modules

- `DataTable_proofs.tla` and `Form_proofs.tla` hold the TLAPS proofs.
- `PopupManager_proofs.tla` and `Artifact_proofs.tla` hold those of the popup manager and the artifact view.
- `MC_DataTable.tla`, `MC_Form.tla`, `MC_Artifact.tla`, `MC_CommentTree.tla` and `MC_PopupManager.tla` instantiate the constants for TLC.

### `DataTableView.tla`: what the table promises

An abstract table holds three things:
- a current query (name and value);
- the pending requests;
- the value whose rows are shown.

It has three actions:
- `Ask` makes a query current and requests it.
- `Show` answers a pending request with its rows.
- `Drop` fails one and changes nothing shown.

`DataTable` maps onto it through `View == INSTANCE DataTableView WITH ...`:
- `curName`, `curValue`, `requests` and `nreq` map one to one;
- `shown` is the query of the rows shown.

`Accept` is an `Ask`, `RespondSuccess` a `Show` and `RespondFailure` a `Drop`. Every other action leaves the view unchanged. The view is deliberately "last response wins": it is what the code does, which `dt_stale` shows is not what the spec's quiescent reading asks for.

## Runs

| Run | Checks | Result |
|---|---|---|
| `dt_safety` (`MC_DataTable.cfg`) | `TypeOK`, `SortedBySetBeforePaging`, `OwnEventsAccepted`, `ViewRefined` | Passes (about 600k distinct states). `ViewRefined` is `View!Spec`, the refinement of `DataTableView`. |
| `dt_stale` | `QuiescentShowsCurrent` | Violated. Two responses arrive out of order and the table shows rows for the old event. |
| `dt_sort_toggle` | `SortToggles` | Violated. The in-place strip of `sortedBy.dir` (line 643) breaks YUI's sort toggle. |
| `form_safety` (`MC_Form.cfg`) | `TypeOK`, `SubmissionResolves`, `ContractRefined` | Passes (about 2k distinct states). `ContractRefined` is `Contract!Spec`, the refinement of `FormContract`. Through the contract's `Confirm`, it also checks that only valid data is submitted. |
| `form_double_submit` | `NoConcurrentSubmit` | Violated. Enter, or a keyup that re-enables OK, submits twice. |
| `form_blank_required` | `SubmittedRequiredNonBlank` | Violated. The trim at line 926 only runs on values that are already empty. |
| `art_safety` (`MC_Artifact.cfg`) | `TypeOK`, `CommentsDivUnique` | Passes (about 336k distinct states). |
| `art_stale_view` | `ViewShowsSelection` | Violated. A late artifact answer, or a teardown that removes the comments div instead of the tab view (line 114), leaves a tab view of a node that is no longer selected. |
| `art_wait_stuck` | `WaitDialogCloses` | Violated. After a save, a comments reload answered with an authentication error returns before `waitDialog.hide()`, so the modal dialog stays open. |
| `cm_tree` (`MC_CommentTree.cfg`) | `RendersReplyTree` | Passes (12,941 states). The recursive rendering equals the reply tree for all 3,321 lists. Replies to missing comments and reply cycles are silently left out. Only the root guard of line 317 keeps the recursion out of a cycle: rendering a reply from the top loop recurses for ever. |
| `pm_safety` (`MC_PopupManager.cfg`) | `TypeOK`, `NewestOnTop`, `MessagesExpire` | Passes (about 120k distinct states). Every popup is above all earlier ones, and every message with a positive `displayTime` is eventually destroyed. |
| `pm_ok_label` | `OkLabelIsDefault` | Violated. A `getUserInput` with `okButtonText` writes it into the shared default buttons (line 392), so the next default dialog shows that label. |

### Bounds

The DataTable instance is small, but each dimension is large enough for its case to happen:
- **Events:** two, with different patterns, so an event can be rejected.
- **Filters:** two.
- **Sort keys:** two, so both re-sorting a key and switching keys occur.
- **Totals:** {0, 20}, which gives two pages of 10, and the zero case.
- **External fires:** at most 4 (`MaxFire`).

The Form instance:
- **Fields:** one Integer `input` and one `textarea`, both required.
- **Value classes:** four.
- **User steps:** at most four, which is enough for a submit, an edit, an Enter and a retry.

The Artifact instance:
- **Nodes:** two artifacts and a folder.
- **User steps:** at most five.

That is enough for a late answer to arrive after a selection of either kind, and for a save followed by a reload.

The CommentTree instance: lists of up to three comments with ids from four. That gives nested replies two deep, a reply to a comment not in the list, and two- and three-comment cycles.

The PopupManager instance:
- **Labels:** one custom label.
- **Display times:** 0 and 3.
- **Calls:** at most four.

Four calls is enough for a custom label followed by a default dialog, for two stacked input dialogs with one ESC, and for a message outliving later popups.

Deadlock is not checked, because the widgets may rightly stop once the user and the server stop (the comment loop stops at the end of its list).

### Fairness

`FairSpec` in `Form.tla` and in `Artifact.tla` assumes weak fairness only of the server:
- every form request is answered;
- every submission is answered.

The user is never required to act.

`FairSpec` in `PopupManager.tla` assumes weak fairness of each message's fade-out timer. `YAHOO.lang.later` fires every timer it starts.

## Proofs (TLAPS)

**`DataTable_proofs.tla`** proves, for every value of the constants, `Spec => []P` for each of:
- `TypeOK`
- `SortedBySetBeforePaging`
- `OwnEventsAccepted`

These invariants are not inductive on their own. The inductive invariant `IInv` adds two conjuncts:
- `IdsBelow`: every request id is at most `nreq`. Without it, a new request could reuse the id of an old one.
- `CurMatches`: the current value matches the pattern of the current event. This is what makes the events the table fires accept-able.

The proof has three parts:
- Init implies `IInv`.
- Each of the seven actions preserves `IInv`. There is one lemma per action, and the bus facts use `HeadTailProperties` and `AppendProperties`.
- PTL combines the two.

`DataTable_proofs.tla` also proves `ViewRefinement`: `Spec => View!Spec`. The proof has three parts:
- `Init` maps to the view's `Init`.
- From `IInv`, each step maps to a view step or a stutter: `Accept` to `Ask`, `RespondSuccess` to `Show`, `RespondFailure` to `Drop`, and the rest to stutters.
- PTL combines them.

The step for `Accept` needs `TypeOK` for the event's type. The step for `Show` needs the assumption `RowsAssumption`: no record of rows equals `None`.

**`PopupManager_proofs.tla`** proves `TypeOK` and `NewestOnTop`, with `IInv == TypeOK /\ NewestOnTop`. A popup opened with the current counter goes on top (lemma `OpenStacking`). `destroy()` keeps every popup's type and z-index (`DestroyType`, `DestroyOne`). The type is per kind: every prompt and input dialog has an OK label. The localization before the first dialog is what guarantees it.

**`Form_proofs.tla`** proves `TypeOK` in the same way, with `IInv == TypeOK /\ SubmittedDataValid`. The conjunct `SubmittedDataValid` says that every submission sent passes `doValidate`, or is the empty form of a 404. `TypeOK` needs it, because a submission's data is typed as a variable set of the form. `OnSubmit` validates before calling `DoSubmit`, and a shared lemma shows that such a `DoSubmit` keeps the invariant. No run checks `SubmittedDataValid` on its own, since it restates the guard at line 890; the refinement checks and proves the same fact through `Confirm`.

It also proves `ContractRefinement`: `Spec => Contract!Spec`.
- `Init` maps to the contract's `Init`.
- From `IInv`, each step maps to a contract step or a stutter (`StepContract`). `OnSubmit` is handled once, for both `ClickOK` and `EnterKey`, in `OnSubmitContract`. It is a `Confirm` of `values` when they are valid; that needs `TypeOK` for `values \in [Fields -> Vals]`. Otherwise it is a stutter. The guard `phase = "open"` of both user steps is what makes it a step of a rendered dialog.
- `SubmitSuccess` maps to `Succeed`, because `phase` goes from `open` or `closed` to `closed`, and the stage of the other phases is already `over`.

**`Artifact_proofs.tla`** proves `TypeOK` (`ArtifactTypeCorrect`) and `CommentsDivUnique` (`CommentsDivAtMostOnce`). Neither is inductive alone. `IInv` adds two conjuncts:
- `ArtifactLoads`: every pending artifact load is for an artifact. Without it, `LoadArtifactSuccess` could build a tab view for a folder.
- `SelectedFirst`: before the first selection, nothing is pending and nothing is shown. Without it, `LoadArtifactSuccess`, `SaveComment` and `SaveSuccess` could send a request for `None`, since they use the node selected now.

The lemma `DetachProps` says that detaching a node that stands at most once in a sequence leaves a sequence of the same elements without it. `LoadCommentsSuccess` then appends the one comments div. `Select` drops the first child, which keeps uniqueness; `LoadArtifactSuccess` appends a tab view, which is not the comments div by `ArtifactAssumption`.

The proofs rest on the constant assumptions `ConstAssumption`, `NoSortAssumption`, `RowsAssumption`, `FormAssumption`, `PopupAssumption` and `ArtifactAssumption`:
- the patterns are subsets of the filters;
- `None` is distinct from every value;
- `"empty"` is among the values;
- the artifacts are nodes, and the comments div is not a node.

Some properties are only model-checked. TLAPS cannot prove liveness (`SubmissionResolves`, `MessagesExpire`) or anything about ENABLED, so these stay with TLC. `RendersReplyTree` is about a `RECURSIVE` operator, which TLAPS cannot reason about, so it also stays with TLC. Every other invariant and refinement that a passing run checks has a theorem.

No action property is stated. Each candidate restated one handler's assignment, or exempted the one step where the code goes wrong, so it was dropped:
- "OK is enabled only on valid fields, or by `onFailure`" exempts exactly the `onFailure` step that re-enables OK on unvalidated data.
- "comments appear only as the answer to a load" restates `shown' = r.node`.
- "an ESC listener belongs to an input dialog" restates line 441.
- "only the user dismisses a prompt" cannot be broken by a plausible bug without also breaking `TypeOK`.

## Not modelled yet, and the plan

Still to model:
1. In `Artifact.tla`:
   - the tab index, and `activeTabIndex` out of range after a late answer (line 215);
   - the per-tab loads (`onLoadTabSuccess`, `onLoadTabFailure`);
   - composing `Artifact` with `PopupManager`. `onLoadTabFailure` calls `displayError(message)` with no text (line 292). `DisplayPrompt` throws on it, so no error popup appears.
2. A bound on saves in flight. An unrelated comments load can hide the wait dialog (line 332), which re-enables the save buttons while a save is pending.

Some hazards have a model but no property, because the project is capped at twelve runs:
- **`DataTable`:** the paging step that publishes a stale sort while a sort request is pending (line 641).
- **`DataTable`:** the total of 0 kept by the `||` default (line 659).
- **`Form`:** the textarea that has no revalidation listener (line 822). `onFailure` also enables OK on a textarea edited while the submission was pending (line 1019). `ContractRefined` shows that `onSubmit` still refuses to send the invalid data. No run states that an enabled OK always means valid fields: the code does not promise it, and the textarea alone already breaks it.
- **`PopupManager`:** the ESC listeners are never disabled (line 441). One ESC destroys every input dialog that is open. Neither the spec nor a comment says which dialog ESC should cancel when several are open, so no property is stated.

Two parts stay out of the project:
- `Navigation` only creates a form, which `Form` models.
- `getTables` is server-side I/O with no state.
