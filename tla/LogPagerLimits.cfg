SPECIFICATION Spec
CONSTANTS
  Style <- DepthAround
  Cap <- WideCap
  MaxBlock = 10
  RangePerCall = 8
  MaxShrinks = 2
  GrowthAfter = 2
  MaxRetries = 2
  Hints = {}
INVARIANTS WindowKeepsHalf LimitsNeverStop
