INIT LWInit
NEXT LWNext
CONSTANTS
  Workers = {1}
  Jobs = {"build", "deploy", "call"}
  Instances = {"build1", "deploy1"}
  Shapes <- OnlyChain
  Conclusions = {"success"}
  MaxRounds = 2
  MaxFaults = 1
INVARIANTS EffectiveEvidenceDue
CHECK_DEADLOCK FALSE
