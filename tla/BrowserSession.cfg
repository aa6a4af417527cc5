CONSTANTS
  MaxOpenings = 2
  MaxClicks = 3
SPECIFICATION Spec
CHECK_DEADLOCK FALSE
INVARIANTS NoticeWhilePending PendingIsOwed ShownMatchesHash
PROPERTY RequestsSettle
