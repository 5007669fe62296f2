SPECIFICATION FairSpec
CONSTANTS
    s1 = s1
    Submits = {s1}
    Notices = {}
    Steers = {}
    Waiters = {}
    Durable = {}
    Cancellable = {}
    Goals = {}
    Modes = {"continuable"}
    QueueCap = 1
    SteerCap = 1
    MaxSteps = 1
    Disturbances = {"close"}
    MaxFaults = 0
    MaxRuns = 1
PROPERTIES
    EverySubmitAnswered
CHECK_DEADLOCK FALSE
