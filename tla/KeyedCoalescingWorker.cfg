SPECIFICATION FairSpec
CONSTANTS
  Keys = {k1, k2}
  Waiters = {w1}
  NoKey = NoKey
  MaxRequests = 3
INVARIANTS NothingForgotten RequestsAccounted
PROPERTIES ImplementsWork EverythingSettles
CHECK_DEADLOCK FALSE
