SPECIFICATION DecodeSpec
CONSTANTS
  AddrMod = 1
  RMod = 1
  VecNMI = 0
  VecIM1 = 0
  MemBytes <- MCAllBytes
  AckBytes <- MCAllBytes
  MaxPre = 3
INVARIANTS
  FramesStep
  ShowsWhatRan
