SPECIFICATION FairSpec
CONSTANTS
  Name <- MCName
  Needs <- MCNeeds
  Workers = 2
  MaxTip = 3
  MaxFail = 1
  MaxRestart = 1
INVARIANTS
  NoGap
PROPERTIES
  PinsCatchUp
CHECK_DEADLOCK FALSE
