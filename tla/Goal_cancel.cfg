CONSTANTS
    Ids = {g1, g2}
    Caps = {2}
    Clock = {1}
    CancelReplies = {"err"}
    BlockedAfter = 2
    MaxOps = 3
    MaxFaults = 0
    MaxCrashes = 0
SPECIFICATION Spec
INVARIANT CancelledRoundPauses
CHECK_DEADLOCK FALSE
SYMMETRY Symmetry
