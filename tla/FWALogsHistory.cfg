SPECIFICATION Spec
CONSTANTS
  Events <- ThreeEvents
  KindOf <- NamedKinds
  ListingOf <- NamedListings
  MaxBlock = 4
  StartBlock = 2
  Window = 1
  MinRows = 1
  CatchupMax = 1
  HeadLag = 1
  LogLag = 0
  MaxStarts = 3
INVARIANTS CountsExact
PROPERTIES NamedStaysNamed IsALedger
CHECK_DEADLOCK FALSE
