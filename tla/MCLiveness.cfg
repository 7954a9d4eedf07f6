SPECIFICATION LivenessSpec
CONSTANTS
    NumNodes = 2
    FailuresBeforeCooldown = 1
    BaseCooldown = 1
    MaxCooldown = 1
    MaxExponent = 0
    LagTolerance = 0
    StateFloorTTL = 1
    DemoteTicks = 0
    MaxHeight = 1
    MaxLatency = 1
    CatchingUp = {FALSE}
    r1 = r1
    refresher = refresher
    poller = poller
    poller2 = poller2
    Requests = {r1}
    Participants = {}
    ParticipantFallback = FALSE
    FallbackPoolSize = 0
    FallbackAttempts = 1
    FallbackRefresh = 1
    ProbeInterval = 1
    Outages = {1, 2}
    Pruners = {}
    Laggards = {}
    Refresher = refresher
PROPERTIES
    RequestsEnd
    NodesRecover
    EpochsCatchUp
