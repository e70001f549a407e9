------------------------------ MODULE Artifact ------------------------------
(***************************************************************************)
(* Activiti.component.Artifact (activiti-5.3 artifact.js): the view of the *)
(* node selected in the repository tree.  A selection of a new node tears *)
(* down the view and, for an artifact, starts loadArtifact; its answer    *)
(* builds a tab view, appends it to #artifact-div and starts loadComments; *)
(* the comments answer (re)appends the comments div to #artifact-div.     *)
(* Saving a comment shows a modal wait dialog, and its success reloads    *)
(* the comments of the node selected at that moment.  Nothing cancels a   *)
(* pending request.                                                        *)
(*                                                                         *)
(* The children of #artifact-div are a sequence: a node n stands for the  *)
(* tab view built for n, CommentsDiv for the div with id <id>-comments.   *)
(* The tab index, the tagging component and the options menu are left    *)
(* out: no property here depends on them.                                 *)
(***************************************************************************)
EXTENDS Naturals, Sequences, FiniteSets

CONSTANTS
    Nodes,        \* repository nodes the tree can select
    Artifacts,    \* the nodes with isRepositoryArtifact (files, not folders)
    CommentsDiv,  \* the comments div as a child of #artifact-div
    None,         \* no node
    MaxUser       \* bound on the user's selections and saved comments

ASSUME ArtifactAssumption ==
    /\ Artifacts \subseteq Nodes
    /\ CommentsDiv \notin Nodes
    /\ None \notin Nodes \cup {CommentsDiv}
    /\ MaxUser \in Nat

VARIABLES
    node,     \* _repositoryNodeId (also the id the header element carries)
    tabView,  \* the artifact this._tabView was last built for, or None
    div,      \* the children of #artifact-div, in document order
    shown,    \* the node whose comments the comments div holds, or None
    wait,     \* waitDialog is visible
    pend,     \* requests sent to the repository service, not yet answered
    nreq,     \* requests sent so far (ids)
    nuser     \* user steps so far

vars == <<node, tabView, div, shown, wait, pend, nreq, nuser>>

Kinds == {"artifact", "comments", "save"}

Request == [id : Nat, kind : Kinds, node : Nodes]

(* s with x taken out of the place it holds: appendChild first detaches  *)
(* a node that is already in the document, and a DOM node has one place. *)
Detach(s, x) ==
    IF \E i \in 1..Len(s) : s[i] = x
    THEN LET i == CHOOSE i \in 1..Len(s) : s[i] = x
         IN SubSeq(s, 1, i - 1) \o SubSeq(s, i + 1, Len(s))
    ELSE s

TypeOK ==
    /\ node \in Nodes \cup {None}
    /\ tabView \in Artifacts \cup {None}
    /\ div \in Seq(Artifacts \cup {CommentsDiv})
    /\ shown \in Nodes \cup {None}
    /\ wait \in BOOLEAN
    /\ pend \subseteq Request
    /\ nreq \in Nat
    /\ nuser \in Nat

(* The constructor (lines 19-55): no node, an empty tab view object, the  *)
(* wait dialog rendered hidden.                                           *)
Init ==
    /\ node = None
    /\ tabView = None
    /\ div = <<>>
    /\ shown = None
    /\ wait = FALSE
    /\ pend = {}
    /\ nreq = 0
    /\ nuser = 0

\* A call of the repository service (loadArtifact, loadComments,
\* saveComment), answered later.
Send(kind, n) ==
    /\ pend' = pend \cup {[id |-> nreq + 1, kind |-> kind, node |-> n]}
    /\ nreq' = nreq + 1

(* onUpdateArtifactView (lines 93-140) for node n.  The same node only    *)
(* moves the active tab.  A new node removes the first div of             *)
(* #artifact-div, clears the comments div, and loads n if it is an       *)
(* artifact.                                                             *)
Select(n) ==
    /\ nuser < MaxUser
    /\ nuser' = nuser + 1
    /\ node' = n
    /\ IF n = node
       THEN UNCHANGED <<div, shown, pend, nreq>>
       ELSE /\ div' = IF div = <<>> THEN div ELSE Tail(div)
            /\ shown' = None
            /\ IF n \in Artifacts THEN Send("artifact", n)
                                  ELSE UNCHANGED <<pend, nreq>>
    /\ UNCHANGED <<tabView, wait>>

(* onLoadArtifactSuccess (lines 151-251) with an authenticationError: an  *)
(* AuthenticationDialog is opened and nothing else changes.              *)
LoadArtifactAuthError(r) ==
    /\ r \in pend /\ r.kind = "artifact"
    /\ pend' = pend \ {r}
    /\ UNCHANGED <<node, tabView, div, shown, wait, nreq, nuser>>

\* Mutant of LoadArtifactSuccess: the tab view is built for the node
\* selected now instead of the artifact of the response.
LoadArtifactSuccessCurrentNode(r) ==
    /\ r \in pend /\ r.kind = "artifact"
    /\ tabView' = node
    /\ div' = Append(div, node)
    /\ pend' = (pend \ {r}) \cup {[id |-> nreq + 1, kind |-> "comments", node |-> node]}
    /\ nreq' = nreq + 1
    /\ UNCHANGED <<node, shown, wait, nuser>>

(* onLoadArtifactSuccess: a tab view for the artifact of the response is *)
(* appended to #artifact-div, then the comments of this._repositoryNodeId *)
(* (the node selected now) are loaded (line 249).                        *)
LoadArtifactSuccess(r) ==
    /\ r \in pend /\ r.kind = "artifact"
    /\ tabView' = r.node
    /\ div' = Append(div, r.node)
    /\ pend' = (pend \ {r}) \cup {[id |-> nreq + 1, kind |-> "comments", node |-> node]}
    /\ nreq' = nreq + 1
    /\ UNCHANGED <<node, shown, wait, nuser>>

(* onLoadCommentsSuccess (lines 295-333) with an authenticationError: the *)
(* comments div is cleared and the handler returns before line 332, so   *)
(* the wait dialog keeps its state.                                      *)
LoadCommentsAuthError(r) ==
    /\ r \in pend /\ r.kind = "comments"
    /\ pend' = pend \ {r}
    /\ shown' = None
    /\ UNCHANGED <<node, tabView, div, wait, nreq, nuser>>

\* Mutant of LoadCommentsSuccess: a new comments div is appended each time.
LoadCommentsSuccessAppendNew(r) ==
    /\ r \in pend /\ r.kind = "comments"
    /\ pend' = pend \ {r}
    /\ div' = Append(div, CommentsDiv)
    /\ shown' = r.node
    /\ wait' = FALSE
    /\ UNCHANGED <<node, tabView, nreq, nuser>>

(* onLoadCommentsSuccess: the comments of the requested node are written *)
(* into the comments div, which appendChild moves to the end of          *)
(* #artifact-div (line 324); the wait dialog is hidden (line 332).        *)
LoadCommentsSuccess(r) ==
    /\ r \in pend /\ r.kind = "comments"
    /\ pend' = pend \ {r}
    /\ div' = Append(Detach(div, CommentsDiv), CommentsDiv)
    /\ shown' = r.node
    /\ wait' = FALSE
    /\ UNCHANGED <<node, tabView, nreq, nuser>>

(* onClickAddCommentButton and onReplyButtonClick (lines 350-381): with  *)
(* a non-empty text the wait dialog is shown and the comment is saved on *)
(* the selected node.  The buttons exist only in a rendered comments     *)
(* div, and the modal wait dialog covers them while it is visible.       *)
SaveComment ==
    /\ nuser < MaxUser
    /\ ~wait
    /\ shown # None
    /\ \E i \in 1..Len(div) : div[i] = CommentsDiv
    /\ wait' = TRUE
    /\ Send("save", node)
    /\ nuser' = nuser + 1
    /\ UNCHANGED <<node, tabView, div, shown>>

(* onSaveCommentSuccess (lines 383-390): the comments of the node        *)
(* selected now are reloaded; a message is displayed.                   *)
SaveSuccess(r) ==
    /\ r \in pend /\ r.kind = "save"
    /\ pend' = (pend \ {r}) \cup {[id |-> nreq + 1, kind |-> "comments", node |-> node]}
    /\ nreq' = nreq + 1
    /\ UNCHANGED <<node, tabView, div, shown, wait, nuser>>

(* onSaveCommentFailure (lines 392-395): the wait dialog is hidden.      *)
SaveFailure(r) ==
    /\ r \in pend /\ r.kind = "save"
    /\ pend' = pend \ {r}
    /\ wait' = FALSE
    /\ UNCHANGED <<node, tabView, div, shown, nreq, nuser>>

\* The repository service's answers.
Answer ==
    \E r \in pend :
        \/ LoadArtifactAuthError(r)
        \/ LoadArtifactSuccess(r)
        \/ LoadCommentsAuthError(r)
        \/ LoadCommentsSuccess(r)
        \/ SaveSuccess(r)
        \/ SaveFailure(r)

Next ==
    \/ \E n \in Nodes : Select(n)
    \/ SaveComment
    \/ Answer

Spec == Init /\ [][Next]_vars

(* The service answers every request; the user need not act.             *)
FairSpec == Spec /\ WF_vars(Answer)

-----------------------------------------------------------------------------
(* Properties *)

(* #artifact-div holds at most one comments div: onLoadCommentsSuccess   *)
(* reuses the div with id <id>-comments when it is in the document, and  *)
(* appendChild moves it rather than copying it.                          *)
CommentsDivUnique ==
    \A i, j \in 1..Len(div) :
        div[i] = CommentsDiv /\ div[j] = CommentsDiv => i = j

(* Once every artifact load has been answered, the view shows at most one *)
(* tab view and only that of the selected node (spec 4.4: a new          *)
(* selection tears down the prior tab content).                          *)
ViewShowsSelection ==
    (\A r \in pend : r.kind # "artifact") =>
        \A i \in 1..Len(div) : div[i] \in Nodes => div[i] = node

(* The wait dialog shown by a save is eventually hidden: every failure   *)
(* ends in an immediate UI fallback (spec, error taxonomy).              *)
WaitDialogCloses ==
    wait ~> ~wait
=============================================================================
