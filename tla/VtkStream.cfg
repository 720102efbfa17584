\* Messages that may lack objects, on a connection that buffers two frames and may
\* fail, to receivers that may refuse.
SPECIFICATION FairSpec
CONSTANTS
  Shapes <- AllShapes
  MaxMessages = 3
  BufferCap = 2
  MayRefuse = TRUE
  MayBreak = TRUE
CHECK_DEADLOCK FALSE
INVARIANTS
  TypeOK
  LossExplained
PROPERTIES
  StreamSpec
  AllDelivered
