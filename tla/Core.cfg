SPECIFICATION Spec
CONSTANTS
  AddrMod = 4
  RMod = 3
  VecNMI = 1
  VecIM1 = 2
  MemBytes <- MCAllBytes
  AckBytes <- MCAcks
  MaxPre = 2
INVARIANTS
  TypeOK
  IffOrder
  StepTime
  AcceptanceKeepsPC
  RefreshAddress
  QIsOfPrevious
  HaltedExecutesNothing
  InjectionKeepsPC
PROPERTIES
  EiShadow
  KeepsInterruptContract
