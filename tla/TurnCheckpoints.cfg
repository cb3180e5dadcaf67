SPECIFICATION FairSpec
CONSTANTS
  Turns = {1, 2}
  Budgets <- CheckpointBudgets
PROPERTIES
  RealCheckpointStays
  PlaceholderReplaced
CHECK_DEADLOCK FALSE
