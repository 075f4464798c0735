SPECIFICATION LiveSpec
CONSTANTS
  Genesis <- MCOneToken
  MaxOps = 2
  Chunk = 3
  Lookback = 0
  Lag = 0
  MaxStarts = 2
INVARIANTS  CountedToMark
PROPERTIES  EventuallyJudged
CHECK_DEADLOCK FALSE
