SPECIFICATION PollSpec
CONSTANTS
  MaxEvents = 2
  ReplayBatch = 1
  MaxFaults = 1
  MaxNoProgressRetries = 1
INVARIANT StoreIsPrefix
PROPERTIES StoreNeverGoesBack CatchesUp
