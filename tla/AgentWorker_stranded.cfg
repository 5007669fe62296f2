SPECIFICATION Spec
CONSTANTS
    s1 = s1
    n1 = n1
    Submits = {s1}
    Notices = {n1}
    Steers = {}
    Waiters = {}
    Durable = {}
    Cancellable = {s1}
    Goals = {}
    Modes = {"continuable"}
    QueueCap = 1
    SteerCap = 1
    MaxSteps = 1
    Disturbances = {}
    MaxFaults = 0
    MaxRuns = 1
INVARIANTS
    NoticeNotStranded
CHECK_DEADLOCK FALSE
