SPECIFICATION ServicesSpec
CONSTANTS
    p1 = p1
    p2 = p2
    c1 = c1
    c2 = c2
    a1 = a1
    k1 = k1
    d1 = d1
    r1 = r1
    r2 = r2
    Procs = {p1, p2}
    Calls = {c1, c2}
    Asks = {a1}
    Compactions = {k1}
    Children = {d1}
    TodoCalls = {c1}
    Omitted = {c2}
    MaxTurn = 1
    MaxStep = 1
    MaxEvents = 10
    MaxFaults = 1
    Jobs = {"j1"}
    Owners = {"s1", "s2"}
    JobChildren = {"s1"}
    MaxCalls <- MCJobCalls
    MaxLive = 1
    LiveRetain = 3
    SettledRetain = 1
    Chunks <- JobWrites
    MaxBytes = 6
    MaxDisturbed = 1
    Fronts = {p1, p2}
    Questions <- PlanQuestion
    Batches <- Replies
    MaxSelects = 2
    MaxTurns = 3
    MaxRestarts = 1
    Plugins = 3
    MaxCleanups = 2
    CallIds = {"k1", "k2"}
    Closers = {"s1", "s2"}
    Providers = {"p1"}
    Updaters = {"u1"}
    MaxEdits = 1
    MaxUpdates = 1
    Clients = {p1, p2}
    Routes = {r1, r2}
    MaxGrants = 2
    MaxOps = 2
    MaxCrashes = 1
    SpillCalls = {"k1"}
    OldFiles = {"o1"}
    Others = {p1, p2}
    Attempts = 2
    Digests = {"d1"}
    Ops = {p1, p2}
    Peers = {"x1"}
    MaxConversions = 1
    MaxLosses = 1
    Steps = {"s1"}
    Policies <- RetryPolicies
    Failures <- ModelFailures
    Arguments <- QueryLists
    MaxQueries = 4
    MaxResults = 2
    Answers <- SourceLists
    Output <- CommandOutput
    MaxWrite = 2
    Limit = 2
    Graces = {TRUE, FALSE}
    FileContents = {"x", "y"}
    Large = {"y"}
    Sessions = {"a", "b"}
    Readers <- FileReads
    MaxWrites = 1
    MaxOutside = 1
SYMMETRY Symmetry
INVARIANTS
    LogCoherent
    RepairAccepted
    AckedIsDurable
    JobsReported
    JobOutputKept
    ConsentKept
    EffectsUndone
    SettingsKept
    GrantKept
    SpillKept
    ReferencesDurable
    RetryKept
    SearchKept
    CommandKept
PROPERTIES
    OpenedIsClosed
    AccountsImplement
    FileKept
CHECK_DEADLOCK FALSE
