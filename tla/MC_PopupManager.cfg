CONSTANTS
    l1 = l1
    null = null
    Labels <- MCLabels
    Times <- MCTimes
    None <- null
    MaxCalls = 4

SPECIFICATION FairSpec

INVARIANT TypeOK
INVARIANT NewestOnTop
PROPERTY MessagesExpire

CHECK_DEADLOCK FALSE
