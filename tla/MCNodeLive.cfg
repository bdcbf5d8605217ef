SPECIFICATION FairSpec
CONSTANTS
  n1 = n1
  o1 = o1
  o2 = o2
  o3 = o3
  o4 = o4
  None = None
  Nonce <- MCNonce
  Output <- MCOutput
  Expiry <- MCExpiry
  Tx <- MCTwoTx
  Timestamp = {1, 2}
  Freq = 5
  MaxFail = 1
  MaxHeight = 3
  MaxBlockTxs = 1
  MaxPool = 1
  MaxCrash = 1
  Recovers = {TRUE}
  TxsInFirstBlock = FALSE
PROPERTIES
  ImplementsLedger
  BegunIsFinished
CHECK_DEADLOCK FALSE
