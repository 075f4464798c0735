SPECIFICATION Spec
CONSTANTS
  MaxBlock = 2
  Deposits <- FirstTwo
  SettleBlock = 3
  MaxStarts = 0
PROPERTIES RepairLands
CHECK_DEADLOCK FALSE
