SPECIFICATION Spec
CONSTANTS
  Subs <- MCSubs
  KeepSource = 9
  Queries <- MCQueries
  None = None
  MaxTime = 2
  MaxChanges = 2
INVARIANTS
  TypeOK
PROPERTIES
  ImplementsMerge
CHECK_DEADLOCK FALSE
