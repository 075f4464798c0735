SPECIFICATION Spec
CONSTANTS
  Logs = {"l1", "l2", "b1"}
  Tokens = {"t1", "t2"}
  TopicOf <- NamedTopics
  TokenOf <- NamedTokens
  MaxBlock = 4
  StartBlock = 3
  DeployBlock = 1
  FirstLookback = 5
  Lookback = 2
  Margin = 1
  PageSize = 2
  ChunkSize = 1
  RingSize = 6
  PersistSize = 6
  ReorgDepth = 1
  LogLag = 0
  HeadLag = 1
  MaxReorgs = 1
  MaxStarts = 1
INVARIANTS EventsCovered  
PROPERTIES BoundedRegress
