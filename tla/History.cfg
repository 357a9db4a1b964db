SPECIFICATION FairHistory
CONSTANTS
  AddrMod = 1
  RMod = 4
  VecNMI = 0
  VecIM1 = 0
  MemBytes <- MCBytes
  AckBytes <- MCAcks
  MaxPre = 3
INVARIANT RefreshCounted
PROPERTIES
  RetnRestores
  StepReturns
  NmiServed
  IntServed
