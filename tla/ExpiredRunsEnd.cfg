SPECIFICATION Spec
CONSTANTS
    MaxHistory = 2
    NoMemory = NoMemory
    FireTimes <- MCFireTimes
    TimeoutMinutes = 1
    Jitter = 0
    MemoryMin = 1
    MemoryMax = 8
    MemoryBuffer = 0
    AbsoluteThreshold = 1
    RelativeThreshold = 10
    InitialMemory = NoMemory
    RequireHealthyCluster = TRUE
    PostActions <- MCOnePostAction
    NoVPA = NoVPA
    NoRecommendation = NoRecommendation
    VPAStates = {NoVPA, 4}
    ClusterMemories = {2}
    Faults = {}
    MaxFaults = 1
    MaxTime = 1
PROPERTY
    ExpiredRunsEnd
