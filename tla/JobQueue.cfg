SPECIFICATION LiveSpec
CONSTANTS
  Assets = {"a1"}
  Workers = {"w1", "w2"}
  MaxAttempts = 3
  Limits <- MCSameLimit
  Lease = 4
  Beat = 1
  LockWait = 1
  MaxDelay = 2
  MaxRuns = 2
INVARIANTS
  SingleHolder
  RunJobAgree
  ResultFromLastClaim
  HeartbeatKeepsLease
PROPERTIES
  ClosedJobFinal
  ImplementsLifecycle
  ScopedRunSettles
