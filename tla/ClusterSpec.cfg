SPECIFICATION Spec
CONSTANTS
    Absent = Absent
    Failed = Failed
    ExecuteTemplate <- Eval
    Gibi = 4
    MemoryMin = 4
    MemoryMax = 12
    MemoryBuffer = 20
    AbsoluteThreshold = 1
    RelativeThreshold = 25
    Container = "postgres"
    Policies <- MCPolicies
    VPARecommendations <- MCVPARecommendations
    UserSpecs <- MCUserSpecs
INVARIANTS
    TypeOK
    LimitCoversRequest
    ParametersFollowResources
