\* Objects that are set, given away, received and passed on, and that may fail to be
\* received, into three messages.
SPECIFICATION HolderSpec
CONSTANTS
  o1 = o1
  o2 = o2
  o3 = o3
  o4 = o4
  Objects <- Places
  NULL = NULL
SYMMETRY Alike
CHECK_DEADLOCK FALSE
INVARIANTS
  CountsExact
  NothingDeletedIsSent
