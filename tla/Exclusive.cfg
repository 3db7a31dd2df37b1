INIT ReadyInit
NEXT LeaseNext
CONSTANTS
  Attempts = {a1, a2}
  Runners = {r1, r2}
  Slots = {1}
  NoLease = NoLease
  DesiredStates = {"Active"}
  Reports = {"Running"}
  Conclusions = {}
  LeaseDuration = 2
  SessionTimeout = 2
  MaxLeaseFailures = 2
  MaxSkew = 0
  MaxTime = 4
  MaxToken = 2
  MaxEpoch = 2
  MaxRenewals = 2
SYMMETRY Symmetry
INVARIANTS ExclusiveExecution FencingInv
CHECK_DEADLOCK FALSE
