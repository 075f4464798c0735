SPECIFICATION LiveSpec
CONSTANTS
  MaxBlock = 3
  Deposits <- FirstTwo
  SettleBlock = 3
  MaxStarts = 1
INVARIANTS NothingSkipped StaleIsDegraded
PROPERTIES RepairHasCause  GapsClose
CHECK_DEADLOCK FALSE
