SPECIFICATION FairSpec
CONSTANTS
  Callers = {c1, c2}
  None = None
  MaxRun = 2
INVARIANTS
  SharedRuntime
  LoadStartsProgram
PROPERTIES
  Settles
  Wakes
