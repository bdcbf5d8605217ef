SPECIFICATION MCSpec
CONSTANTS
  None = None
  n1 = n1
  n2 = n2
  c1 = c1
  c2 = c2
  c3 = c3
  c4 = c4
  k = k
  Procs = {n1, n2, n3}
  n3 = n3
  n4 = n4
  Boot = n1
  Allowed = {n2}
  Calls = {c1, c2, c3, c4}
  Script <- MCScript
  snapCount = 4
  nSnapCatchupEntries = 0
  MaxLog = 7
  MaxFaults = 1
  MaxTries = 2
INVARIANTS
  
  AnswersAreLogged
CHECK_DEADLOCK FALSE
