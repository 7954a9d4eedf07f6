SPECIFICATION ClientSpec
CONSTANTS
  NumNodes = 2
  FailuresBeforeCooldown = 1
  BaseCooldown = 2
  MaxCooldown = 1
  MaxExponent = 0
  LagTolerance = 0
  StateFloorTTL = 1
  DemoteTicks = 1
  MaxHeight = 2
  MaxLatency = 1
  CatchingUp = {FALSE}
  r1 = r1
  refresher = refresher
  p1 = p1
  Requests = {r1}
  Participants = {p1}
  ParticipantFallback = TRUE
  FallbackPoolSize = 1
  FallbackAttempts = 1
  FallbackRefresh = 1
  ProbeInterval = 1
  Outages = {1, 2}
  Pruners = {1, 2}
  Laggards = {1, 2}
  Refresher = refresher
INVARIANTS
  TypeOK
  HintsSound
  GivesUpOnlyWhenExhausted
  ParticipantsOnlyWhenAllDown
PROPERTIES
  RealAnswerEndsRequest
