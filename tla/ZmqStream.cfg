\* A pipe that holds one message, with and without routers, loss, objects and polling.
SPECIFICATION FairSpec
CONSTANTS
  Settings <- Uses
  MaxMessages = 3
  HighWater = 1
CHECK_DEADLOCK FALSE
INVARIANTS
  TypeOK
  BackInStep
PROPERTIES
  EnvelopeStream
  FreshDispatched
  WholeDispatched
