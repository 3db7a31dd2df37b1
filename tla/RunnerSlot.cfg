SPECIFICATION Spec
CONSTANTS
  MaxRecords = 2
  SegmentCap = 2
  MaxSegments = 2
  Calls = {1, 2}
  MaxFaults = 1
INVARIANTS
  SlotRecoverable
  LogIntact
  ResultLast
  ReleasedClean
  RefusalsExplained
CHECK_DEADLOCK FALSE
PROPERTY
  ImplementsDurableLog
  SlotSettles
