----------------------------- MODULE CommentTree -----------------------------
(***************************************************************************)
(* The comment rendering of Activiti.component.Artifact (activiti-5.3     *)
(* artifact.js): the loop of onLoadCommentsSuccess (lines 316-320) over   *)
(* the flat comment list the server returns, which renders every comment  *)
(* without answeredCommentId through composeCommentHtml (lines 424-435).  *)
(* composeCommentHtml appends a div for the comment and, inside it, the   *)
(* divs of the comments that answer it, scanning the whole list each time *)
(* and recursing.  The document order of the divs is the output here: a   *)
(* sequence of [id, depth].                                               *)
(*                                                                         *)
(* A comment is abstracted to its id and its answeredCommentId.  The ids  *)
(* are distinct (the server's keys); answeredCommentId is null for a root *)
(* or any id, so the list may hold replies whose comment is not in it.    *)
(* The author, date and content only feed encodeHTML and are left out.    *)
(* The recursion makes this module one for TLC only.                      *)
(***************************************************************************)
EXTENDS Naturals, Sequences, FiniteSets

CONSTANTS
    Ids,          \* comment ids
    None,         \* a null answeredCommentId
    MaxComments   \* bound on the length of the list

ASSUME CommentAssumption ==
    /\ None \notin Ids
    /\ MaxComments \in Nat

Comment == [id : Ids, parent : Ids \cup {None}]

\* The lists the comment service can return: distinct ids, any parents.
CommentLists ==
    UNION {{cs \in [1..n -> Comment] :
              \A i, j \in 1..n : i # j => cs[i].id # cs[j].id}
           : n \in 0..MaxComments}

VARIABLES
    comments,   \* commentsJson
    item,       \* the index of the for-in loop of onLoadCommentsSuccess
    html        \* the comment divs appended to commentsDiv, in document order

vars == <<comments, item, html>>

\* !answeredCommentId: null is falsy (line 317).
IsRoot(c) == c.parent = None

(* composeCommentHtml (lines 424-435): the comment's div, then, inside it *)
(* and in list order, the divs of every comment whose answeredCommentId  *)
(* == comment.id.                                                        *)
RECURSIVE ComposeCommentHtml(_, _, _), Replies(_, _, _, _)
ComposeCommentHtml(c, depth, cs) ==
    <<[id |-> c.id, depth |-> depth]>> \o Replies(c, depth, cs, 1)

\* The for-in loop of lines 430-434 from index k on.
Replies(c, depth, cs, k) ==
    IF k > Len(cs) THEN <<>>
    ELSE (IF cs[k].parent = c.id THEN ComposeCommentHtml(cs[k], depth + 1, cs)
          ELSE <<>>)
         \o Replies(c, depth, cs, k + 1)

(* The list arrives: the comments div is emptied and gets its heading     *)
(* (lines 296-314); the loop starts at the first item.                    *)
Init ==
    /\ comments \in CommentLists
    /\ item = 1
    /\ html = <<>>

\* Mutant of RenderRoot: the replies are looked for only after the root.
RenderRootLaterOnly ==
    /\ item <= Len(comments)
    /\ IsRoot(comments[item])
    /\ html' = html \o ComposeCommentHtml(comments[item], 0,
                                         SubSeq(comments, item, Len(comments)))
    /\ item' = item + 1
    /\ UNCHANGED comments

(* One iteration of lines 316-320 on a root comment.                      *)
RenderRoot ==
    /\ item <= Len(comments)
    /\ IsRoot(comments[item])
    /\ html' = html \o ComposeCommentHtml(comments[item], 0, comments)
    /\ item' = item + 1
    /\ UNCHANGED comments

(* One iteration of lines 316-320 on a reply: nothing is rendered.        *)
SkipReply ==
    /\ item <= Len(comments)
    /\ ~IsRoot(comments[item])
    /\ item' = item + 1
    /\ UNCHANGED <<comments, html>>

Next == RenderRoot \/ SkipReply

Spec == Init /\ [][Next]_vars

-----------------------------------------------------------------------------
(* The reply tree, defined without recursion.                             *)

\* The chains of list indices from a root to index i, each link a reply
\* to the previous one.
Chains(cs, i) ==
    {ch \in UNION {[1..k -> 1..Len(cs)] : k \in 1..Len(cs)} :
        /\ IsRoot(cs[ch[1]])
        /\ ch[Len(ch)] = i
        /\ \A m \in 1..(Len(ch) - 1) : cs[ch[m + 1]].parent = cs[ch[m]].id}

\* Index i hangs under a root of the list.
InTree(cs, i) == Chains(cs, i) # {}

\* Its depth in the tree (its chain is unique, the ids being distinct).
Depth(cs, i) == CHOOSE k \in 0..Len(cs) : \E ch \in Chains(cs, i) : Len(ch) = k + 1

\* The index of the comment with id x.
IndexOf(cs, x) == CHOOSE i \in 1..Len(cs) : cs[i].id = x

(* Once the loop is over, the comments div holds the reply tree in depth- *)
(* first order (spec 4.4: a reply tree rebuilt by one recursive walk     *)
(* keyed by parent id, rendered depth-first): every comment under a root *)
(* exactly once and at its depth, nothing else, each reply right inside  *)
(* the div of the comment it answers, and siblings in list order.        *)
RendersReplyTree ==
    item > Len(comments) =>
        LET ids(s) == {s[p].id : p \in 1..Len(s)} IN
        /\ ids(html) = {comments[i].id : i \in {j \in 1..Len(comments) : InTree(comments, j)}}
        /\ Len(html) = Cardinality(ids(html))
        /\ \A p \in 1..Len(html) :
              LET i == IndexOf(comments, html[p].id) IN
              /\ html[p].depth = Depth(comments, i)
              /\ html[p].depth > 0 =>
                    \E q \in 1..(p - 1) :
                       /\ html[q].depth = html[p].depth - 1
                       /\ \A r \in (q + 1)..(p - 1) : html[r].depth >= html[p].depth
                       /\ html[q].id = comments[i].parent
        /\ \A p, q \in 1..Len(html) :
              /\ p < q
              /\ comments[IndexOf(comments, html[p].id)].parent
                   = comments[IndexOf(comments, html[q].id)].parent
              => IndexOf(comments, html[p].id) < IndexOf(comments, html[q].id)
=============================================================================
