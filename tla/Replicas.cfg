SPECIFICATION ReplicasSpec
CONSTANTS
    MaxHistory = 1
    NoMemory = NoMemory
    FireTimes <- MCFireTimes
    TimeoutMinutes = 1
    Jitter = 0
    MemoryMin = 1
    MemoryMax = 8
    MemoryBuffer = 0
    AbsoluteThreshold = 1
    RelativeThreshold = 10
    InitialMemory = NoMemory
    RequireHealthyCluster = TRUE
    PostActions <- MCNoPostActions
    NoVPA = NoVPA
    NoRecommendation = NoRecommendation
    VPAStates = {4}
    ClusterMemories = {2}
    Faults = {"crash"}
    MaxFaults = 1
    MaxTime = 1
PROPERTIES
    ConditionIsRepaired
    ImplementsOneController
