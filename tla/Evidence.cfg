SPECIFICATION Spec
CONSTANTS
  Sources = {"terms", "prices"}
  Reviewers = {ann, bob}
  Specialists = {ann, bob}
  Factual = {"E2"}
  Criteria = {"E2"}
  Exclusions = {}
  Reviews <- MCReviews
  MaxRev = 2
  MaxRuns = 2
  MaxEvidence = 1
  MaxDecisions = 2
  MaxFindings = 2
INVARIANTS
  FactualRatingsGoverned
  RecordTraceable
  AmendsWhatWasRead
SYMMETRY ReviewerSymmetry
CHECK_DEADLOCK FALSE
