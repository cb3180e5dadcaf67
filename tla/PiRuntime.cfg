SPECIFICATION FairSpec
CONSTANTS
  c1 = c1
  c2 = c2
  c3 = c3
  Callers = {c1, c2, c3}
  NoCaller = NoCaller
  MaxRuns = 2
INVARIANTS
  ThreadSettles
  RunningIsShown
PROPERTY
  GuardReopens
CHECK_DEADLOCK FALSE
