SPECIFICATION PoolSpec
CONSTANTS
    NumNodes = 2
    FailuresBeforeCooldown = 2
    BaseCooldown = 2
    MaxCooldown = 1
    MaxExponent = 0
    LagTolerance = 0
    StateFloorTTL = 1
    DemoteTicks = 1
    MaxHeight = 2
    MaxLatency = 1
    CatchingUp = {FALSE}
INVARIANTS
    CoolingMeansRepeatedFailures
    HistoryBeforeHealth
PROPERTIES
    BlipKeepsOrder
    PrunedAnswerKeepsRealtimeOrder
    BlockFloorNeverDrops
