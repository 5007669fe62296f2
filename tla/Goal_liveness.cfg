CONSTANTS
    Ids = {g1}
    Caps = {1}
    Clock = {0}
    CancelReplies = {"err"}
    BlockedAfter = 2
    MaxOps = 3
    MaxFaults = 1
    MaxCrashes = 0
SPECIFICATION FairSpec
INVARIANTS
    BuildsAccepted
PROPERTIES
    ArmedSettles
    StopCompletes
CHECK_DEADLOCK FALSE
