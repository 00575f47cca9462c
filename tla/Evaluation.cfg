SPECIFICATION Spec
CONSTANTS
  Items = {"i1"}
  Checks = {"m1"}
  Versions <- MCVersions
  Extractions <- MCExtractions
  Failures = {"transient", "permanent"}
  MaxAttempts = 2
  ClaimIds = {"c1", "c2"}
  MaxComparisons = 2
  MaxRuns = 2
  MaxRestarts = 2
INVARIANTS
  ConsentWhenTogether
  MechanicalResultsKept
  PassRestsOnQuotes
  TransmissionsBounded
CHECK_DEADLOCK FALSE
