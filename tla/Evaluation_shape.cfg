SPECIFICATION Spec
CONSTANTS
  Items = {"i1"}
  Checks = {"m1"}
  Versions <- MCVersions
  Extractions <- MCFewExtractions
  Failures = {"odd"}
  MaxAttempts = 2
  ClaimIds = {"c1", "c2"}
  MaxComparisons = 2
  MaxRuns = 1
  MaxRestarts = 0
INVARIANT MechanicalResultsKept
CHECK_DEADLOCK FALSE
