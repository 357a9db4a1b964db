SPECIFICATION FairDriver
CONSTANTS
  AddrMod = 2
  RMod = 1
  VecNMI = 0
  VecIM1 = 0
  MemBytes <- MCBytes
  AckBytes <- MCAcks
  MaxPre = 1
  Kinds <- MCKinds
  Budgets <- MCBudgets
  ClockMod = 100
PROPERTIES
  StopsInTime
  CallReturns
CHECK_DEADLOCK FALSE
