CONSTANTS
    c1 = c1
    c2 = c2
    c3 = c3
    c4 = c4
    null = null
    Ids <- MCIds
    None <- null
    MaxComments = 3

SPECIFICATION Spec

INVARIANT RendersReplyTree

CHECK_DEADLOCK FALSE
