SPECIFICATION SessionSpec
CONSTANTS
  Ids <- MCIds
  SideOf <- MCSideOf
  QtyOf <- MCQtyOf
  Absent = Absent
  ForeignIds = {}
  Threads = {"owner", "supervisor", "killer"}
  MaxDisturbances = 0
CHECK_DEADLOCK FALSE
PROPERTY FailsClosed
