SPECIFICATION Spec
CONSTANTS
  Items = {"i1"}
  Checks = {"m1"}
  Versions <- MCVersions
  Extractions <- MCFewExtractions
  Failures = {"transient"}
  MaxAttempts = 2
  ClaimIds = {"c1", "c2"}
  MaxComparisons = 2
  MaxRuns = 2
  MaxRestarts = 0
INVARIANT TransmittedWithConsent
CHECK_DEADLOCK FALSE
