SPECIFICATION FairSpec
CONSTANTS
    c1 = c1
    c2 = c2
    c3 = c3
    c4 = c4
    c5 = c5
    a1 = a1
    a2 = a2
    a3 = a3
    a4 = a4
    k1 = k1
    Calls = {c1, c2, c3, c4, c5}
    Asks = {a1, a2, a3, a4}
    Compactions = {k1}
    Children = {}
    TodoCalls = {c2}
    Omitted = {}
    Batches <- MixedBatches
    Concurrent = {c1, c2, c3}
    Gated = {c1}
    Invalid = {c5}
    MaxConcurrent = 2
    MaxTurn = 2
    MaxStep = 2
    Overlap = FALSE
    MaxFaults = 1
INVARIANTS
    NeverRejected
    ClosedBetweenTurns
    CallsControlled
PROPERTIES
    TurnReturns
CHECK_DEADLOCK FALSE
