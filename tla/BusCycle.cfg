SPECIFICATION Spec
CONSTANTS
  AddrMod = 3
  RMod = 2
  MaxWait = 2
  WaitBound = 5
INVARIANT TypeOK
PROPERTIES
  TransferStrobed
  KeepsBusContract
