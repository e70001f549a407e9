CONSTANTS
    f1 = f1
    f2 = f2
    null = null
    Fields <- MCFields
    Kind <- MCKind
    TypeMeta <- MCTypeMeta
    Required <- MCRequired
    Vals <- MCVals
    None = null
    MaxUser = 4

SPECIFICATION FairSpec

INVARIANT TypeOK
PROPERTY SubmissionResolves
PROPERTY ContractRefined

\* The dialog waits for the user once the bounded user actions are spent.
CHECK_DEADLOCK FALSE
