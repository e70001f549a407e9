CONSTANTS
    f1 = f1
    f2 = f2
    null = null
    Fields <- MCFields
    Kind <- MCKind
    TypeMeta <- MCTypeMeta
    Required <- MCRequired
    Vals <- MCVals
    None = null
    MaxUser = 4

SPECIFICATION Spec

INVARIANT SubmittedRequiredNonBlank

CHECK_DEADLOCK FALSE
