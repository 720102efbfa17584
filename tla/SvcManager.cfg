\* Every order of registrations and lookups.
SPECIFICATION ManagerSpec
CONSTANTS
  a = a
  b = b
  c = c
  first = first
  again = again
  other = other
  Null = Null
  Absent = Absent
  Methods = {a, b, c}
  Dispatchers = {first, again, other}
  Implements <- MCImplements
  MaxEvents = 5
CHECK_DEADLOCK FALSE
INVARIANTS
  FirstEventDecides
  TableAgrees
