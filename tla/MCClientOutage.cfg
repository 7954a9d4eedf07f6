SPECIFICATION Spec
CONSTANTS
    NumNodes = 2
    FailuresBeforeCooldown = 2
    BaseCooldown = 1
    MaxCooldown = 2
    MaxExponent = 1
    LagTolerance = 0
    StateFloorTTL = 1
    DemoteTicks = 1
    MaxHeight = 1
    MaxLatency = 1
    CatchingUp = {FALSE}
    r1 = r1
    refresher = refresher
    p1 = p1
    Requests = {r1}
    Participants = {p1}
    ParticipantFallback = TRUE
    FallbackPoolSize = 1
    FallbackAttempts = 1
    FallbackRefresh = 1
    ProbeInterval = 1
    Outages = {1, 2, p1}
    Pruners = {}
    Laggards = {}
    Refresher = refresher
INVARIANTS
    NoOutageWhileANodeIsLeft
