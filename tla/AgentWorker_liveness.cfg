SPECIFICATION FairSpec
CONSTANTS
    s1 = s1
    s2 = s2
    n1 = n1
    m1 = m1
    w1 = w1
    Submits = {s1, s2}
    Notices = {n1}
    Steers = {m1}
    Waiters = {w1}
    Durable = {}
    Cancellable = {}
    Goals = {s2}
    Modes = {"continuable", "one-shot"}
    QueueCap = 1
    SteerCap = 1
    MaxSteps = 2
    Disturbances = {"interrupt"}
    MaxFaults = 0
    MaxRuns = 1
INVARIANTS
    NoticeNotStranded
    OneShotOpensOnce
PROPERTIES
    EverySubmitAnswered
    EveryNoticeDelivered
CHECK_DEADLOCK FALSE
