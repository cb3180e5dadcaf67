SPECIFICATION FairSpec
CONSTANTS
  HistoryLimit = 1
  MaxCreated = 3
  MaxPending = 2
  MaxDrains = 2
INVARIANTS
  TypeOK
  ProcessesOwned
  ExitsHandled
  DiskFollowsTerminal
PROPERTIES
  CallsReturn
CHECK_DEADLOCK FALSE
