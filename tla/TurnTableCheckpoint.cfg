SPECIFICATION Spec
CONSTANTS
  Turns = {1, 2}
  Budgets <- CheckpointBudgets
PROPERTIES
  TableCheckpointStays
CHECK_DEADLOCK FALSE
