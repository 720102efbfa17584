\* Both peers serve and call, from inside services and callbacks too, with methods
\* of every kind, on a connection that may fail.
SPECIFICATION Spec
CONSTANTS
  Client = Client
  Server = Server
  plain = plain
  table = table
  note = note
  greeter = greeter
  logger = logger
  Null = Null
  Absent = Absent
  Methods = {table, note}
  Dispatchers = {greeter, logger}
  Implements <- MCImplements
  Offers <- MutualOffers
  Callers = {Client, Server}
  OneWay = {note}
  Attached = {table}
  MaxCalls = 2
  MaxDepth = 3
  MaxOutstanding = 2
  WireCap = 1
  MayBreak = TRUE
  MayDefer = TRUE
  ReceiveArgs = {"block"}
INVARIANTS
  ResponseFindsItsCall
  AtMostOnce
  IteratorsValid
  EnvelopesLive
  CallInv
  LeaksExplained
  TypeOK
PROPERTY
  ContractSpec
CHECK_DEADLOCK FALSE
