SPECIFICATION PollSpec
CONSTANTS
  s1 = s1
  s2 = s2
  NoSlot = NoSlot
  Slots = {s1}
  MaxOp = 2
  MaxLease = 2
  MaxCalls = 1
  MaxTimeouts = 0
  MaxDrops = 0
  MaxRestarts = 0
  MaxExpired = 1
PROPERTIES CommandRecorded
CHECK_DEADLOCK FALSE
