SPECIFICATION Spec
CONSTANTS
    s1 = s1
    n1 = n1
    n2 = n2
    w1 = w1
    Submits = {s1}
    Notices = {n1, n2}
    Steers = {}
    Waiters = {w1}
    Durable = {n1, n2}
    Cancellable = {s1}
    Goals = {s1}
    Modes = {"continuable"}
    QueueCap = 1
    SteerCap = 1
    MaxSteps = 2
    Disturbances = {"interrupt", "close", "crash"}
    MaxFaults = 1
    MaxRuns = 2
INVARIANTS
    WokenHoldsNotice
    InboxKept
    IdleWaiterNotMissed
PROPERTIES
    CancelledTurnTakesNothing
CHECK_DEADLOCK FALSE
SYMMETRY Symmetry
