\* Services that reply before they return, or keep closures in later ones' reach and
\* run them in any later call, of this client or another.
SPECIFICATION FairSession
CONSTANTS
  Hello = Hello
  Grid = Grid
  Unknown = Unknown
  Stack = Stack
  Methods <- AllMethods
  Implements <- Implemented
  Dispatchers <- Places
  WithObjects <- Grids
  Slot <- SameSlot
  MaxRounds = 2
  MaxCalls = 2
  Null = Null
  Absent = Absent
  Keeps = "elsewhere"
CHECK_DEADLOCK FALSE
INVARIANT
  AnswersExplained
PROPERTIES
  WaitsExplained
  NextClientServed
