SPECIFICATION Spec
CONSTANTS
  n1 = n1
  o1 = o1
  o2 = o2
  o3 = o3
  o4 = o4
  None = None
  Nonce <- MCNonce
  Output <- MCOutput
  Expiry <- MCExpiry
  Tx <- MCSingleTx
  Timestamp = {1, 2}
  Freq = 0
  MaxFail = 1
  MaxHeight = 3
  MaxBlockTxs = 2
  MaxPool = 2
  MaxCrash = 1
  Recovers = {TRUE, FALSE}
  TxsInFirstBlock = FALSE
INVARIANTS
  ChainLinked
  RecoverOK
  MemoryFitsTables
CHECK_DEADLOCK FALSE
