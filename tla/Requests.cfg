SPECIFICATION FairSpec
CONSTANTS
  r1 = r1
  r2 = r2
  r3 = r3
  t1 = t1
  t2 = t2
  Requests = {r1, r2, r3}
  Threads = {t1, t2}
  ThreadOf <- MCThreadOf
  Bootstraps <- MCBootstraps
  NoRequest = NoRequest
  MaxFaults = 2
INVARIANTS
  NothingBeforeReady
  AllOrNothing
PROPERTIES
  DeletesOnlyItsOwn
  EveryRequestAnswered
CHECK_DEADLOCK FALSE
