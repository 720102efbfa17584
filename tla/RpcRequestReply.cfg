\* Salutation's discipline: the client waits for each reply; send() blocks at once.
SPECIFICATION FairSpec
CONSTANTS
  Client = Client
  Server = Server
  plain = plain
  table = table
  note = note
  greeter = greeter
  logger = logger
  Null = Null
  Absent = Absent
  Methods = {plain, table}
  Dispatchers = {greeter, logger}
  Implements <- CallImplements
  Offers <- ServerOffers
  Callers = {Client}
  OneWay = {}
  Attached = {table}
  MaxCalls = 3
  MaxDepth = 1
  MaxOutstanding = 1
  WireCap = 0
  MayBreak = FALSE
  MayDefer = FALSE
  ReceiveArgs = {"poll", "block"}
CHECK_DEADLOCK FALSE
INVARIANT
  NoSendDeadlock
PROPERTY
  BoundCallsComplete
