SPECIFICATION PollSpec
CONSTANTS
  s1 = s1
  s2 = s2
  NoSlot = NoSlot
  Slots = {s1, s2}
  MaxOp = 1
  MaxLease = 2
  MaxCalls = 1
  MaxTimeouts = 0
  MaxDrops = 1
  MaxRestarts = 0
  MaxExpired = 0
PROPERTIES PollAnswered
CHECK_DEADLOCK FALSE
