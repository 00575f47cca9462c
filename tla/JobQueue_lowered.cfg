SPECIFICATION LoweredSpec
CONSTANTS
  Assets = {"a1"}
  Workers = {"w1", "w2"}
  MaxAttempts = 2
  Limits <- MCLoweredLimit
  Lease = 3
  Beat = 1
  LockWait = 1
  MaxDelay = 2
  MaxRuns = 2
PROPERTY TransientFailureRetried
