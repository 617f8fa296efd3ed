SPECIFICATION Spec
CONSTANTS
    MaxHistory = 2
    NoMemory = NoMemory
    FireTimes <- MCLastFireTimes
    TimeoutMinutes = 1
    Jitter = 0
    MemoryMin = 3
    MemoryMax = 8
    MemoryBuffer = 34
    AbsoluteThreshold = 2
    RelativeThreshold = 10
    InitialMemory = 2
    RequireHealthyCluster = TRUE
    PostActions <- MCOnePostAction
    NoVPA = NoVPA
    NoRecommendation = NoRecommendation
    VPAStates = {1, 9}
    ClusterMemories = {NoMemory}
    Faults = {"crash", "api", "lostReply", "params"}
    MaxFaults = 2
    MaxTime = 3
INVARIANTS
    TypeOK
    StatusConsistent
    AppliedIsCurrent
    OneCompletedRunPerWindow
    FailureIsReported
    AppliedWithinBounds
PROPERTIES
    HistoryIsAppendOnly
    WindowGuardIsKept
    NoPatchDuringRun
    NoNeedlessPatch
