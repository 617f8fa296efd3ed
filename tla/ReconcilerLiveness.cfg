SPECIFICATION Spec
CONSTANTS
    MaxHistory = 2
    NoMemory = NoMemory
    FireTimes <- MCFireTimes
    TimeoutMinutes = 1
    Jitter = 0
    MemoryMin = 1
    MemoryMax = 8
    MemoryBuffer = 0
    AbsoluteThreshold = 1
    RelativeThreshold = 10
    InitialMemory = 2
    RequireHealthyCluster = FALSE
    PostActions <- MCTwoPostActions
    NoVPA = NoVPA
    NoRecommendation = NoRecommendation
    VPAStates = {NoVPA, 4}
    ClusterMemories = {2, NoMemory}
    Faults = {"crash", "api", "lostReply", "delete"}
    MaxFaults = 1
    MaxTime = 1
PROPERTIES
    ImplementsMaintenanceRun
    CompletedRunsRestartedAll
    RunsTerminate
