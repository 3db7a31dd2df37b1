SPECIFICATION CPSpec
CONSTANTS
  a1 = a1
  a2 = a2
  a3 = a3
  w1 = w1
  w2 = w2
  w3 = w3
  Attempts = {a1, a2, a3}
  Runs = {w1, w2, w3}
  NoRun = NoRun
  Plans <- ThreeRunsOrJoin
  Policies <- AllPolicies
  MaxPending = 2
  Runners = {r1}
  Slots = {1}
  NoLease = NoLease
  DesiredStates = {"Active"}
  Reports = {"Running"}
  Conclusions = {"Succeeded"}
  LeaseDuration = 1
  SessionTimeout = 2
  MaxLeaseFailures = 1
  MaxSkew = 0
  MaxTime = 2
  MaxToken = 1
  MaxEpoch = 1
  MaxRenewals = 1
INVARIANTS GroupExclusive SlotAccounting RunAccounting DependenciesFirst
PROPERTIES FairQueue BlockedConcludes
CHECK_DEADLOCK FALSE
