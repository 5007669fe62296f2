CONSTANTS
    Ids = {g1, g2}
    Caps = {2}
    Clock = {1}
    CancelReplies = {"err", "ok"}
    BlockedAfter = 2
    MaxOps = 3
    MaxFaults = 1
    MaxCrashes = 1
SPECIFICATION Spec
INVARIANTS
    ArmedIsCurrent
    RoundsKept
    RefusalExplained
    StoppedIsQuiet
CHECK_DEADLOCK FALSE
SYMMETRY Symmetry
