SPECIFICATION OperatorSpec
CONSTANTS
    MaxHistory = 1
    NoMemory = NoMemory
    FireTimes <- MCFireTimes
    TimeoutMinutes = 4
    Jitter = 1
    MemoryMin = 1
    MemoryMax = 8
    MemoryBuffer = 0
    AbsoluteThreshold = 1
    RelativeThreshold = 10
    InitialMemory = 2
    RequireHealthyCluster = TRUE
    PostActions <- MCOnePostAction
    NoVPA = NoVPA
    NoRecommendation = NoRecommendation
    VPAStates = {NoVPA, 4}
    ClusterMemories = {NoMemory}
    Faults = {"api", "crash"}
    MaxFaults = 1
    MaxTime = 8
    Error = Error
    Never = Never
    Backoff = 2
    BootstrapDelay = 1
    PollDelay = 1
    RetryDelay = 2
    ReconcileTime = 1
INVARIANTS
    OperatorTypeOK
    PolicyIsWatched
    WindowsAreMet
PROPERTIES
    WakeUpsEnd
    ChangesInsideWindow
