SPECIFICATION LiveSpec
CONSTANTS
  Logs = {"l1", "b1"}
  Tokens = {"t1"}
  TopicOf <- NamedTopics
  TokenOf <- NamedTokens
  MaxBlock = 4
  StartBlock = 3
  DeployBlock = 1
  FirstLookback = 5
  Lookback = 5
  Margin = 1
  PageSize = 2
  ChunkSize = 1
  RingSize = 6
  PersistSize = 6
  ReorgDepth = 1
  LogLag = 1
  HeadLag = 0
  MaxReorgs = 0
  MaxStarts = 2
PROPERTIES EventuallyCounted
