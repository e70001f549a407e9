CONSTANTS
    l1 = l1
    null = null
    Labels <- MCLabels
    Times <- MCTimes
    None <- null
    MaxCalls = 4

SPECIFICATION Spec

INVARIANT OkLabelIsDefault

CHECK_DEADLOCK FALSE
