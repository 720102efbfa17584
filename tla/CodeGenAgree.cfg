\* Every service of one or two methods over messages of every kind.
SPECIFICATION Spec
CONSTANTS
  Services <- AllServices
CHECK_DEADLOCK FALSE
INVARIANTS
  LocalErrorsKnown
  EveryCallReturns
  ObjectsAgree
  ArgumentsMatch
