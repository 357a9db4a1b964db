SPECIFICATION Spec
CONSTANTS
  AddrMod = 16
  Row = 2
  MemRows = 4
  RowsAbove = 1
  PageRows = 2
  Places <- MCPlaces
INVARIANTS
  AnchorShown
  StatusTruthful
