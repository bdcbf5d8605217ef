SPECIFICATION FairSpec
CONSTANTS
  o1 = o1
  o2 = o2
  Output <- MCOutput
  Amount <- MCAmount
  Caller = {c1, c2}
  Token = {t}
  None = None
  Want = {2}
  Early = FALSE
  MaxTip = 2
  MaxRid = 2
INVARIANTS
  ReservationsDisjoint
  OnePerToken
  InsufficientIsReal
PROPERTIES
  ReservedReleased
CHECK_DEADLOCK FALSE
