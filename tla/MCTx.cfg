SPECIFICATION TxSpec
CONSTANTS
  Nil = Nil
  Panic = Panic
  BadCursor = BadCursor
  Prohibited = {"bom"}
  OtherDigit = {"devanagari"}
  Letter = {"a", "b", "c", "x", "AND", "OR", "id", "reference_data", "inputs", "outputs", "type", "amount", "alias", "quorum", "is_local", "position", "nosuch", "asset_alias", "asset_id"}
  AmountBits = 3
  n1 = n1
  n2 = n2
  o1 = o1
  o2 = o2
  o3 = o3
  o4 = o4
  None = None
  Nonce <- MCNonce
  Output <- MCOutput
  Expiry <- MCExpiry
  Tx <- LedgerTxs
  Timestamp = {1, 2, 3, 4}
  MaxHeight = 4
  MaxBlockTxs = 3
INVARIANTS
  NoDoubleSpend
  TreeIsUnspent
  TreeStandsForSet
  AcceptsWhatItShould
  ValueConserved
  IDsDetermine
  
  EncodingsFaithful
  FilterKeepsMeaning
  AnswersComplete
CHECK_DEADLOCK FALSE
