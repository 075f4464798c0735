SPECIFICATION LiveSpec
CONSTANTS
  Style <- AnyTwo
  Cap <- AnyCap
  MaxBlock = 4
  RangePerCall = 4
  MaxShrinks = 2
  GrowthAfter = 2
  MaxRetries = 2
  Hints = {1, 3}
PROPERTIES IsAScan ScanEnds WindowRecovers
