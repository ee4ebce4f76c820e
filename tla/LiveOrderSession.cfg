SPECIFICATION SessionSpec
CONSTANTS
  Ids <- MCIds
  SideOf <- MCSideOf
  QtyOf <- MCQtyOf
  Absent = Absent
  ForeignIds = {}
  Threads = {"owner", "supervisor", "killer"}
  MaxDisturbances = 2
CHECK_DEADLOCK FALSE
INVARIANTS
  ReadyIsReconciled
  StoppedIsQuiet
PROPERTIES
  KillIsLatched
  StopReturns
