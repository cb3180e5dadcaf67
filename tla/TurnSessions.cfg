SPECIFICATION Spec
CONSTANTS
  Turns = {1, 2}
  Budgets <- SessionBudgets
INVARIANTS
  TypeOK
  CountsDistinct
  SessionsAgree
  SettledSessionSettlesTurn
  IdleIsNotRunning
PROPERTIES
  OnlyItsOwnEndSettles
CHECK_DEADLOCK FALSE
