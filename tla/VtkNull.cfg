\* What the generated code says of the objects it receives.
SPECIFICATION Spec
CONSTANTS
  Shapes <- AllShapes
  MaxMessages = 2
  BufferCap = 3
  MayRefuse = FALSE
  MayBreak = FALSE
CHECK_DEADLOCK FALSE
INVARIANT
  ObjectsOwn
