\* Every pair of identities, with every byte behind them.
SPECIFICATION Comparison
CONSTANTS
  Bytes <- Chars
  Capacity = 2
CHECK_DEADLOCK FALSE
INVARIANTS
  ReturnsLess
  OrderAgreesWithEquality
  LoopInv
