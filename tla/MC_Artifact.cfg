\* Artifact: safety of the #artifact-div structure.
CONSTANTS
    a1 = a1
    a2 = a2
    d1 = d1
    Nodes <- MCNodes
    Artifacts <- MCArtifacts
    CommentsDiv = comments
    None = null
    MaxUser = 5
SPECIFICATION FairSpec
INVARIANTS
    TypeOK
    CommentsDivUnique
\* The view rightly stops once the user stops and every answer is in.
CHECK_DEADLOCK FALSE
