SPECIFICATION FairSpec
PROPERTY OrdersLeavePending
CHECK_DEADLOCK FALSE
