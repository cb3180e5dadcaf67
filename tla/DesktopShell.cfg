SPECIFICATION Spec
CONSTANTS
  MaxExits = 3
  MaxChildren = 5
  MaxInstalls = 2
INVARIANTS
  BackendWatched
  NoStrayServer
  CrashLoopStops
  StatusIsTrue
CHECK_DEADLOCK FALSE
