SPECIFICATION SaveSpec
CONSTANTS
  Writers <- Both
  Overlap = FALSE
  DiskErrors = TRUE
  Body = 2
  Widths = {1, 2}
  MaxGen = 3
  MaxCrashes = 2
INVARIANTS FileIsLastSave
PROPERTIES SavesAreWhole
CHECK_DEADLOCK FALSE
