SPECIFICATION FairSpec
CONSTANTS
  Signer = {s1, s2, s3}
  Local = {s1}
  Exposed = {s3}
  Content = {a, b}
  Quorum = 2
  None = None
  MaxHeight = 2
  MaxFail = 1
  MaxRestart = 1
INVARIANTS
  OneBlockPerHeight
  CommittedIsSigned
PROPERTIES
  PendingSigned
CHECK_DEADLOCK FALSE
