SPECIFICATION LiveSpec
CONSTANTS
  Seats = {s1, s2}
  NoSeat = NoSeat
  Early <- None
  Late <- Pool4
  CloseOrder <- SeatLast
  SlotCap = 1
  MaxChanges = 1
INVARIANTS NoneAdrift MarkIsLastRead QuietWhenClosed
PROPERTIES PendingResolves PickIsRead
CHECK_DEADLOCK FALSE
