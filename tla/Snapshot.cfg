SPECIFICATION SnapshotSpec
CONSTANTS
  AddrMod = 2
  RMod = 2
  VecNMI = 1
  VecIM1 = 0
  MemBytes <- MCBytes
  AckBytes <- MCAcks
  MaxPre = 1
INVARIANT Reproduces
