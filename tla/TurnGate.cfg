SPECIFICATION Spec
CONSTANTS
  Turns = {1, 2}
  Budgets <- GateBudgets
PROPERTIES
  OnlyItsOwnEndSettles
CHECK_DEADLOCK FALSE
