SPECIFICATION ModelsSpec
CONSTANTS
  ModelEpochLength = 2
  MaxModelTip = 3
  ModelEpochOffset = 1
  VisitedHeights = {}
  MaxModelEvents = 0
INVARIANTS
  ModelsOfTheirEpoch
CHECK_DEADLOCK FALSE
