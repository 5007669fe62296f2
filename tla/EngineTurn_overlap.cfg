SPECIFICATION Spec
CONSTANTS
    c1 = c1
    c2 = c2
    c3 = c3
    c4 = c4
    c5 = c5
    a1 = a1
    a2 = a2
    a3 = a3
    a4 = a4
    k1 = k1
    Calls = {c1, c2}
    Asks = {a1, a2, a3, a4}
    Compactions = {k1}
    Children = {}
    TodoCalls = {c2}
    Omitted = {}
    Batches <- SmallBatches
    Concurrent = {}
    Gated = {c1}
    Invalid = {}
    MaxConcurrent = 2
    MaxTurn = 1
    MaxStep = 2
    Overlap = TRUE
    MaxFaults = 0
INVARIANTS
    TurnAlwaysEnds
CHECK_DEADLOCK FALSE
