SPECIFICATION PagesSpec
CONSTANTS
  ModelEpochLength = 2
  MaxModelTip = 3
  ModelEpochOffset = 1
  VisitedHeights = {1, 4}
  MaxModelEvents = 1
  StakeEpochLength = 2
  MaxStakeTip = 3
  MaxStakeFaults = 1
  TimelineCalls = {c1, c2}
  TimelineTTL = 2
  LoadedAge = 1
  MaxTimelineNow = 4
  MaxTimelineFaults = 1
  w1 = w1
  w2 = w2
  m1 = m1
  m2 = m2
  RateMembers = {w1}
  RateModels = {m1, m2}
  NodeWeights <- NodeWeightsDef
  MemberWeight <- MemberWeightDef
  Coefficient <- CoefficientDef
  ConfirmedWeight <- ConfirmedWeightDef
  FoundRatios = {1200}
  RateDetails = 1
  MaxRateFaults = 1
  Workers = {w1, w2}
  WorkersOf <- WorkersOfDef
  InferenceStart <- InferenceStartDef
  AssignedTo <- AssignedToDef
  MayEnd <- MayEndDef
  InferenceEpochLength = 2
  PageLimit = 1
  TopLimit = 1
  MaxInferenceTip = 3
  MaxInferenceFaults = 1
  MaxQuote = 2
  MaxMarketFaults = 1
INVARIANTS
  PagesTypeOK
  TimelineIsFresh
  RatesAreGrounded
PROPERTIES
  ModelsFollow
  ValidatorsFollow
  InferencesEndRight
  MarketsStayApart
CHECK_DEADLOCK FALSE
