SPECIFICATION Spec
CONSTANTS
  AddrMod = 3
  RMod = 2
  VecNMI = 1
  VecIM1 = 2
  MemBytes <- MCFewBytes
  AckBytes <- MCAckCB
  MaxPre = 1
INVARIANT InjectionKeepsPC
