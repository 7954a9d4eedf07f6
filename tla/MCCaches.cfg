SPECIFICATION CachesSpec
CONSTANTS
  p1 = p1
  p2 = p2
  k1 = k1
  k2 = k2
  MembersOf <- MembersDef
  Reward <- RewardDef
  UgnkPerGnk = 2
  TotalWindow = 2
  ClaimWindow = 1
  PageWindow = 1
  TotalPoller = total
  Visits = {v1}
  LastEpoch = 3
  MaxRewardFaults = 1
  Holders = {h1}
  MLNodes = {n1}
  n1 = n1
  Weighed <- WeighedDef
  LastWeightEpoch = 2
  MaxHardwareFaults = 1
  Starts <- StartsDef
  HourSpan = 1
  DaySpan = 2
  HourlyDataStart = 0
  MaxHourlyWindow = 4
  MonthPreset = 6
  ExactRangeMinAge = 7
  TrailingRequestSpan = 3
  TrailingDailyRequestSpan = 5
  FinalizeMargin = 1
  LateArrival = 1
  Latency = 0
  MaxBackfillRequests = 1
  MaxNow = 10
  MaxUsageFaults = 1
  Proposal = {1, 2, 3}
  Keys = {k1, k2}
  Updates <- UpdatesDef
  Broken = {3}
  BaseKnown = TRUE
  MaxProposalFaults = 1
INVARIANTS
  CachesTypeOK
  RowsNeverAhead
  TotalNeverOverstates
  FinalIsComplete
  NeverTruncated
  OutcomesAreTrue
  SnapshotsAreSound
PROPERTIES
  MoreExactOverTime
  TotalsSettle
  ClaimsAreLearnt
  WeightsArrive
  RunningStaysFresh
  EndedBecomeFinal
  VotesAreFinalised
CHECK_DEADLOCK FALSE
