SPECIFICATION Spec
CONSTANTS
    Targets <- MCTargets
    Kind <- MCKind
    Desired <- MCDesired
    Surge <- MCSurge
    Lagging <- MCLagging
    PostActions <- MCPostActions
    RolloutRestartTimeout = 2
    MaxFaults = 1
INVARIANTS
    TypeOK
    CompleteMeansRolledOut
PROPERTIES
    OneRolloutAtATime
    ExecuteReturns
