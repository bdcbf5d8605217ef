SPECIFICATION MCSpec
CONSTANTS
  Nil = Nil
  NoPrevout = NoPrevout
  Alias = {al}
  Token = {tk}
  MaxCursorHeight = 1
  MaxPos = 1
  Stop <- MCStop
  MaxID = 2
  PageSize = 1
  Chain <- MCChain
  TimeRange <- MCTimes
  Limit = 1
  LastPos = 99
  Forever = 99
  MaxRetry = 1
  MaxTimeout = 1
  Filter <- SafeFilters
  Process = {p1, p2}
  Lease = 2
  MaxFail = 2
  MaxStop = 2
  NoKey = NoKey
  Tx = {a, x, u}
  MaxBlocks = 3
  Request = {r1, r2}
  Args <- MCArgs
  MaxTime <- MCMaxTime
  Unsigned = {u}
  Invalid = {x}
  NoRow = NoRow
  a = a
  x = x
  u = u
  r1 = r1
  r2 = r2
INVARIANTS
  AckedOnce
  
  FeedsListed
  LeadersExclusive
  AnswersAreTrue
PROPERTIES
  TokenNamesFeed
  PollReturns
  LeadershipSettles
  ImplementsReplica
  RequestsAnswered
CHECK_DEADLOCK FALSE
