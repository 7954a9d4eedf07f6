SPECIFICATION HardwareSpec
CONSTANTS
  Holders = {h1}
  MLNodes = {n1}
  n1 = n1
  Weighed <- WeighedDef
  LastWeightEpoch = 2
  MaxHardwareFaults = 0
INVARIANTS
  WeightsOfTheirEpoch
CHECK_DEADLOCK FALSE
