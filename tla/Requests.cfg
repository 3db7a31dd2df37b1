INIT PollInit
NEXT PollNext
CONSTANTS
  s1 = s1
  s2 = s2
  NoSlot = NoSlot
  Slots = {s1}
  MaxOp = 2
  MaxLease = 2
  MaxCalls = 2
  MaxTimeouts = 1
  MaxDrops = 1
  MaxRestarts = 1
  MaxExpired = 1
INVARIANTS OneLeasePerRequest AnswersAgree RefusedAfterExpiry JournalAgrees
CHECK_DEADLOCK FALSE
