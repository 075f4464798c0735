SPECIFICATION LiveSpec
CONSTANTS
  MaxBlock = 3
  HeadLag = 1
  SweepTtl = 2
  SweepBackoff = 2
  Delays <- OneOrMany
  MaxStarts = 2
INVARIANTS FreshIsWhole FreshWithinLag NeverShownOlder
PROPERTIES BackoffUnlessUpdated StaleIsRefreshed
CHECK_DEADLOCK FALSE
