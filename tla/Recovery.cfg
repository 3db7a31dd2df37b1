SPECIFICATION Spec
CONSTANTS
  Attempts = {a1}
  Runners = {r1}
  Slots = {1}
  NoLease = NoLease
  DesiredStates = {"Active", "Draining", "Disabled"}
  Reports = {"Leased", "Preparing", "Running", "Cancelling", "Finalizing"}
  Conclusions = {"Succeeded", "Cancelled"}
  LeaseDuration = 2
  SessionTimeout = 1
  MaxLeaseFailures = 2
  MaxSkew = 1
  MaxTime = 4
  MaxToken = 2
  MaxEpoch = 2
  MaxRenewals = 1
INVARIANTS RowsWellFormed SessionCurrency CancellationSticks TerminalEvidence
PROPERTIES NeverRestarted OrphanFrozen OrphanReclaimed ImplementsExclusiveWork
CHECK_DEADLOCK FALSE
