SPECIFICATION FairSpec
CONSTANTS
  Name <- MCTxName
  Needs <- MCTxNeeds
  Workers = 2
  MaxTip = 2
  MaxFail = 1
  MaxRestart = 0
PROPERTIES
  AllProcessed
CHECK_DEADLOCK FALSE
