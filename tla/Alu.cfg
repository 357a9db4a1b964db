SPECIFICATION Spec
CONSTANT Inputs <- MCInputs
INVARIANTS
  ArithmeticExact
  CompareOrders
  DecimalExact
  WordsChain
  BitsInPlace
  IncDecStep
  LatchesShow
CHECK_DEADLOCK FALSE
