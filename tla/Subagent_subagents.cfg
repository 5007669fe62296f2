SPECIFICATION Spec
CONSTANTS
    r = r
    c1 = c1
    c2 = c2
    c3 = c3
    t1 = t1
    t2 = t2
    None = None
    Root = r
    Ids <- MCIds
    Threads = {t1, t2}
    MaxDepth = 2
    Budgets <- Plans
SYMMETRY Symmetry
INVARIANTS
    ChildrenKept
    DeliveredAccounted
    NothingLeft
PROPERTIES
    SettlesOnlyWhenDone
CHECK_DEADLOCK FALSE
