\* The extension numbers 2 to 13, of which 5 and 6 are reserved.
SPECIFICATION Spec
CONSTANTS
  Requests <- PluginRequests
  Hashes = {0, 1, 9, 10, 14, 30, 31}
  MinNumber = 2
  MaxNumber = 13
  FirstReserved = 5
  LastReserved = 6
  UintMax = 31
CHECK_DEADLOCK FALSE
INVARIANTS
  CrashExplained
  NumbersInRange
  ResponseAccepted
  ErrorHoldersOnce
