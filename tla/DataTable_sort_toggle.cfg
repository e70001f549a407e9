CONSTANTS
    e1 = e1
    e2 = e2
    f1 = f1
    f2 = f2
    k1 = k1
    k2 = k2
    t1 = t1
    o1 = o1
    null = null
    Events <- MCEvents
    Filters <- MCFilters
    Pattern <- MCPattern
    Keys <- MCKeys
    Totals <- MCTotals
    Me = t1
    Others <- MCOthers
    None = null
    MaxFire = 4


SPECIFICATION Spec

PROPERTY SortToggles

CHECK_DEADLOCK FALSE
