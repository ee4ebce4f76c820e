SPECIFICATION ManagerSpec
CONSTANTS
  Ids <- MCIds
  SideOf <- MCSideOf
  QtyOf <- MCQtyOf
  Absent = Absent
  Threads = {t1}
  ForeignIds = {"sell"}
INVARIANTS
  ManagerTypeOK
  LocalFillsAreReal
  LedgerCountsFillsOnce
CHECK_DEADLOCK FALSE
