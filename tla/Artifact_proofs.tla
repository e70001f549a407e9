--------------------------- MODULE Artifact_proofs ---------------------------
(***************************************************************************)
(* Proofs about Artifact: the type invariant and the uniqueness of the    *)
(* comments div among the children of #artifact-div, for every set of    *)
(* nodes and every bound on the user's steps.                            *)
(***************************************************************************)
EXTENDS Artifact, SequenceTheorems, TLAPS

(* What makes TypeOK inductive: an artifact load is only ever sent for an *)
(* artifact (onUpdateArtifactView checks isRepositoryArtifact), so its    *)
(* answer builds a tab view for an artifact; and nothing is sent before  *)
(* the first selection, so the handlers that use this._repositoryNodeId  *)
(* find a node there.                                                    *)
ArtifactLoads == \A r \in pend : r.kind = "artifact" => r.node \in Artifacts

SelectedFirst == node = None => pend = {} /\ shown = None

IInv == TypeOK /\ CommentsDivUnique /\ ArtifactLoads /\ SelectedFirst

USE ArtifactAssumption

\* x stands at most once in s.
AtMostOnce(s, x) == \A i, j \in 1..Len(s) : s[i] = x /\ s[j] = x => i = j

(* Detaching a node that stands at most once in a sequence leaves a       *)
(* sequence of the same elements without it.                              *)
LEMMA DetachProps ==
    ASSUME NEW S, NEW s \in Seq(S), NEW x, AtMostOnce(s, x)
    PROVE  /\ Detach(s, x) \in Seq(S)
           /\ \A k \in 1..Len(Detach(s, x)) : Detach(s, x)[k] # x
<1>1. CASE \E i \in 1..Len(s) : s[i] = x
  <2>1. PICK i \in 1..Len(s) : s[i] = x
    BY <1>1
  <2> DEFINE u == SubSeq(s, 1, i - 1)
             v == SubSeq(s, i + 1, Len(s))
  <2>2. Detach(s, x) = u \o v
    BY <2>1 DEF Detach, AtMostOnce
  <2>3. /\ u \in Seq(S) /\ Len(u) = i - 1
        /\ \A k \in 1..(i - 1) : u[k] = s[k]
    BY SubSeqProperties
  <2>4. /\ v \in Seq(S) /\ Len(v) = Len(s) - i
        /\ \A k \in 1..(Len(s) - i) : v[k] = s[i + k]
    BY SubSeqProperties
  <2> HIDE DEF u, v
  <2>5. \A k \in 1..Len(s) : k # i => s[k] # x
    BY <2>1 DEF AtMostOnce
  <2>9. /\ u \o v \in Seq(S) /\ Len(u \o v) = Len(u) + Len(v)
        /\ \A k \in 1..(Len(u) + Len(v)) :
              (u \o v)[k] = IF k <= Len(u) THEN u[k] ELSE v[k - Len(u)]
    BY <2>3, <2>4, ConcatProperties, Zenon
  <2>6. /\ u \o v \in Seq(S) /\ Len(u \o v) = Len(s) - 1
        /\ \A k \in 1..(Len(s) - 1) :
              (u \o v)[k] = IF k <= i - 1 THEN u[k] ELSE v[k - (i - 1)]
    BY <2>3, <2>4, <2>9
  <2>7. \A k \in 1..Len(u \o v) : (u \o v)[k] # x
    <3> SUFFICES ASSUME NEW k \in 1..(Len(s) - 1) PROVE (u \o v)[k] # x
      BY <2>6
    <3>1. CASE k <= i - 1
      BY <3>1, <2>3, <2>5, <2>6
    <3>2. CASE k > i - 1
      <4>1. k - (i - 1) \in 1..(Len(s) - i)
        BY <3>2
      <4>2. (u \o v)[k] = s[k + 1]
        BY <3>2, <4>1, <2>4, <2>6
      <4>3. QED
        BY <3>2, <4>2, <2>5
    <3>3. k <= i - 1 \/ k > i - 1
      OBVIOUS
    <3>4. QED
      BY <3>1, <3>2, <3>3, Zenon
  <2>8. QED
    BY <2>2, <2>6, <2>7
<1>2. CASE ~\E i \in 1..Len(s) : s[i] = x
  BY <1>2 DEF Detach
<1>3. QED
  BY <1>1, <1>2
LEMMA InitIInv == Init => IInv
<1> SUFFICES ASSUME Init PROVE IInv
  OBVIOUS
<1>1. TypeOK
  <2>1. node \in Nodes \cup {None} /\ tabView \in Artifacts \cup {None} /\ shown \in Nodes \cup {None}
    BY DEF Init
  <2>2. div \in Seq(Artifacts \cup {CommentsDiv})
    BY DEF Init
  <2>3. wait \in BOOLEAN /\ nreq \in Nat /\ nuser \in Nat
    BY DEF Init
  <2>4. pend \subseteq Request
    BY DEF Init
  <2>5. QED
    BY <2>1, <2>2, <2>3, <2>4 DEF TypeOK
<1>2. CommentsDivUnique
  BY DEF Init, CommentsDivUnique
<1>3. ArtifactLoads /\ SelectedFirst
  BY DEF Init, ArtifactLoads, SelectedFirst
<1>4. QED
  BY <1>1, <1>2, <1>3 DEF IInv

\* The types the request sets are built from.
LEMMA RequestType ==
    ASSUME TypeOK, NEW k \in Kinds, NEW n \in Nodes
    PROVE  [id |-> nreq + 1, kind |-> k, node |-> n] \in Request
BY DEF TypeOK, Request

LEMMA SelectIInv ==
    ASSUME IInv, NEW n \in Nodes, Select(n)
    PROVE  IInv'
<1>1. CASE n = node
  BY <1>1 DEF Select, IInv, TypeOK, CommentsDivUnique, ArtifactLoads, SelectedFirst
<1>2. CASE n # node
  <2>1. /\ div' \in Seq(Artifacts \cup {CommentsDiv})
        /\ CommentsDivUnique'
    <3>1. CASE div = <<>>
      BY <1>2, <3>1 DEF Select, IInv, CommentsDivUnique
    <3>2. CASE div # <<>>
      <4>1. div \in Seq(Artifacts \cup {CommentsDiv}) /\ div' = Tail(div)
        BY <1>2, <3>2 DEF Select, IInv, TypeOK
      <4>2. /\ Tail(div) \in Seq(Artifacts \cup {CommentsDiv})
            /\ Len(Tail(div)) = Len(div) - 1
            /\ \A i \in 1..Len(Tail(div)) : Tail(div)[i] = div[i + 1]
        BY <3>2, <4>1, HeadTailProperties
      <4>3. QED
        BY <4>1, <4>2 DEF IInv, CommentsDivUnique
    <3>3. QED
      BY <3>1, <3>2
  <2>2. /\ pend' \subseteq Request /\ nreq' \in Nat
        /\ ArtifactLoads'
    <3>1. CASE n \in Artifacts
      BY <1>2, <3>1, RequestType DEF Select, Send, IInv, TypeOK, ArtifactLoads, Kinds
    <3>2. CASE n \notin Artifacts
      BY <1>2, <3>2 DEF Select, IInv, TypeOK, ArtifactLoads
    <3>3. QED
      BY <3>1, <3>2
  <2>3. QED
    BY <1>2, <2>1, <2>2 DEF Select, IInv, TypeOK, SelectedFirst
<1>3. QED
  BY <1>1, <1>2

\* A handler that takes r out of pend and changes nothing else in IInv's
\* reach but shown (set to None or to a node) and wait.
LEMMA DropOnly ==
    ASSUME IInv, NEW r \in pend, pend' = pend \ {r},
           UNCHANGED <<node, tabView, div, nreq, nuser>>,
           shown' \in Nodes \cup {None}, wait' \in BOOLEAN,
           node = None => shown' = None
    PROVE  IInv'
<1>1. TypeOK'
  BY DEF IInv, TypeOK
<1>2. CommentsDivUnique'
  BY DEF IInv, CommentsDivUnique
<1>3. ArtifactLoads' /\ SelectedFirst'
  BY DEF IInv, TypeOK, ArtifactLoads, SelectedFirst
<1>4. QED
  BY <1>1, <1>2, <1>3 DEF IInv

\* A comments load of the node selected now, as LoadArtifactSuccess and
\* SaveSuccess send: node is a node, since something was pending.
LEMMA ReloadComments ==
    ASSUME IInv, NEW r \in pend,
           pend' = (pend \ {r}) \cup {[id |-> nreq + 1, kind |-> "comments", node |-> node]},
           nreq' = nreq + 1
    PROVE  /\ pend' \subseteq Request /\ nreq' \in Nat
           /\ \A q \in pend' : q.kind = "artifact" => q.node \in Artifacts
<1>1. node \in Nodes
  BY DEF IInv, TypeOK, SelectedFirst
<1>2. [id |-> nreq + 1, kind |-> "comments", node |-> node] \in Request
  BY <1>1, RequestType DEF IInv, Kinds
<1>3. QED
  BY <1>2 DEF IInv, TypeOK, ArtifactLoads

LEMMA LoadArtifactSuccessIInv ==
    ASSUME IInv, NEW r \in pend, LoadArtifactSuccess(r)
    PROVE  IInv'
<1>1. r.node \in Artifacts
  BY DEF LoadArtifactSuccess, IInv, ArtifactLoads
<1>2. /\ div \in Seq(Artifacts \cup {CommentsDiv})
      /\ div' = Append(div, r.node)
  BY DEF LoadArtifactSuccess, IInv, TypeOK
<1>3. /\ div' \in Seq(Artifacts \cup {CommentsDiv})
      /\ Len(div') = Len(div) + 1
      /\ \A i \in 1..Len(div) : div'[i] = div[i]
      /\ div'[Len(div) + 1] = r.node
  BY <1>1, <1>2, AppendProperties
<1>4. CommentsDivUnique'
  BY <1>1, <1>3 DEF IInv, CommentsDivUnique
<1>5. /\ pend' \subseteq Request /\ nreq' \in Nat /\ ArtifactLoads'
  BY ReloadComments DEF LoadArtifactSuccess, ArtifactLoads
<1>6. QED
  BY <1>1, <1>3, <1>4, <1>5 DEF LoadArtifactSuccess, IInv, TypeOK, SelectedFirst

LEMMA LoadCommentsSuccessIInv ==
    ASSUME IInv, NEW r \in pend, LoadCommentsSuccess(r)
    PROVE  IInv'
<1> DEFINE d == Detach(div, CommentsDiv)
<1>1. /\ d \in Seq(Artifacts \cup {CommentsDiv})
      /\ \A k \in 1..Len(d) : d[k] # CommentsDiv
  BY DetachProps DEF IInv, TypeOK, CommentsDivUnique, AtMostOnce
<1> HIDE DEF d
<1>2. /\ div' \in Seq(Artifacts \cup {CommentsDiv})
      /\ Len(div') = Len(d) + 1
      /\ \A i \in 1..Len(d) : div'[i] = d[i]
      /\ div'[Len(d) + 1] = CommentsDiv
  BY <1>1, AppendProperties DEF LoadCommentsSuccess, d
<1>3. CommentsDivUnique'
  BY <1>1, <1>2 DEF CommentsDivUnique
<1>4. r.node \in Nodes
  BY DEF IInv, TypeOK, Request
<1>5. QED
  BY <1>2, <1>3, <1>4 DEF LoadCommentsSuccess, IInv, TypeOK, ArtifactLoads, SelectedFirst

LEMMA SaveCommentIInv ==
    ASSUME IInv, SaveComment
    PROVE  IInv'
<1>1. node \in Nodes
  BY DEF SaveComment, IInv, TypeOK, SelectedFirst
<1>2. [id |-> nreq + 1, kind |-> "save", node |-> node] \in Request
  BY <1>1, RequestType DEF IInv, Kinds
<1>3. QED
  BY <1>1, <1>2 DEF SaveComment, Send, IInv, TypeOK, CommentsDivUnique, ArtifactLoads, SelectedFirst

LEMMA SaveSuccessIInv ==
    ASSUME IInv, NEW r \in pend, SaveSuccess(r)
    PROVE  IInv'
<1>1. /\ pend' \subseteq Request /\ nreq' \in Nat /\ ArtifactLoads'
  BY ReloadComments DEF SaveSuccess, ArtifactLoads
<1>2. QED
  BY <1>1 DEF SaveSuccess, IInv, TypeOK, CommentsDivUnique, SelectedFirst

LEMMA StepIInv == IInv /\ [Next]_vars => IInv'
<1> SUFFICES ASSUME IInv, [Next]_vars PROVE IInv'
  OBVIOUS
<1>1. CASE \E n \in Nodes : Select(n)
  BY <1>1, SelectIInv
<1>2. CASE SaveComment
  BY <1>2, SaveCommentIInv
<1>3. ASSUME NEW r \in pend, LoadArtifactAuthError(r) PROVE IInv'
  <2>1. /\ pend' = pend \ {r}
        /\ UNCHANGED <<node, tabView, div, nreq, nuser>>
        /\ shown' \in Nodes \cup {None} /\ wait' \in BOOLEAN
        /\ node = None => shown' = None
    BY <1>3 DEF LoadArtifactAuthError, IInv, TypeOK, SelectedFirst
  <2>2. QED
    BY <2>1, DropOnly
<1>4. ASSUME NEW r \in pend, LoadArtifactSuccess(r) PROVE IInv'
  BY <1>4, LoadArtifactSuccessIInv
<1>5. ASSUME NEW r \in pend, LoadCommentsAuthError(r) PROVE IInv'
  <2>1. /\ pend' = pend \ {r}
        /\ UNCHANGED <<node, tabView, div, nreq, nuser>>
        /\ shown' \in Nodes \cup {None} /\ wait' \in BOOLEAN
        /\ node = None => shown' = None
    BY <1>5 DEF LoadCommentsAuthError, IInv, TypeOK, SelectedFirst
  <2>2. QED
    BY <2>1, DropOnly
<1>6. ASSUME NEW r \in pend, LoadCommentsSuccess(r) PROVE IInv'
  BY <1>6, LoadCommentsSuccessIInv
<1>7. ASSUME NEW r \in pend, SaveSuccess(r) PROVE IInv'
  BY <1>7, SaveSuccessIInv
<1>8. ASSUME NEW r \in pend, SaveFailure(r) PROVE IInv'
  <2>1. /\ pend' = pend \ {r}
        /\ UNCHANGED <<node, tabView, div, nreq, nuser>>
        /\ shown' \in Nodes \cup {None} /\ wait' \in BOOLEAN
        /\ node = None => shown' = None
    BY <1>8 DEF SaveFailure, IInv, TypeOK, SelectedFirst
  <2>2. QED
    BY <2>1, DropOnly
<1>9. CASE UNCHANGED vars
  BY <1>9 DEF vars, IInv, TypeOK, CommentsDivUnique, ArtifactLoads, SelectedFirst
<1>10. QED
  BY <1>1, <1>2, <1>3, <1>4, <1>5, <1>6, <1>7, <1>8, <1>9 DEF Next, Answer

\* IInv holds in every reachable state.
LEMMA IInvariant == Spec => []IInv
BY InitIInv, StepIInv, PTL DEF Spec

(* Every state of the artifact view is well typed: in particular every   *)
(* tab view in #artifact-div and this._tabView are built for an artifact  *)
(* (onLoadArtifactSuccess only ever answers a loadArtifact that           *)
(* onUpdateArtifactView sent for an isRepositoryArtifact node), and every *)
(* request carries a node.                                               *)
THEOREM ArtifactTypeCorrect == Spec => []TypeOK
BY IInvariant, PTL DEF IInv

(* #artifact-div never holds two comments divs, however the loads, saves *)
(* and selections interleave: onLoadCommentsSuccess's appendChild moves  *)
(* the one div to the end, and the other handlers only add tab views or  *)
(* remove the first child.                                               *)
THEOREM CommentsDivAtMostOnce == Spec => []CommentsDivUnique
BY IInvariant, PTL DEF IInv


=============================================================================
