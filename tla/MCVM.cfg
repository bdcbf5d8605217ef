SPECIFICATION MCSpec
CONSTANTS
  IntBytes = 2
  AddrBytes = 2
  KeyLen = 2
  Nil = Nil
  initialRunLimit = 2600
  Hash <- MCHash
  Signed <- MCSigned
  SigHash <- MCSigHash
  Contexts <- MCContexts
INVARIANTS
  AcceptedIsMeant
  ArithmeticExact
  ProgramsInvert

  
