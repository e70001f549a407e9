\* Artifact: WaitDialogCloses is expected to be violated.
CONSTANTS
    a1 = a1
    a2 = a2
    d1 = d1
    Nodes <- MCNodes
    Artifacts <- MCArtifacts
    CommentsDiv = comments
    None = null
    MaxUser = 5
SPECIFICATION FairSpec
PROPERTY WaitDialogCloses
\* The view rightly stops once the user stops and every answer is in.
CHECK_DEADLOCK FALSE
