SPECIFICATION LiveSpec
CONSTANTS
  Screens <- ThreeScreens
  MaxMail = 2
INVARIANTS OneFetchPerManager NeverWedged OneTimer
PROPERTIES NoFetchAfterExit KeepsRefreshing HiddenScreenStops
CHECK_DEADLOCK FALSE
