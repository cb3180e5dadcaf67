SPECIFICATION Spec
CONSTANTS
  Turns = {1, 2}
  Budgets <- StopBudgets
INVARIANTS
  ShownTurnSettles
CHECK_DEADLOCK FALSE
