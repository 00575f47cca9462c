SPECIFICATION LiveSpec
CONSTANTS
  Assets = {"a1"}
  Briefs = {"b1"}
  Resources = {"src"}
  Principals = {"ann"}
  Evaluators = {"e1", "e2"}
  Owner <- MCOwner
  Needs <- MCNeeds
  SpecialistBriefs = {}
  Approvers = {"ann"}
  Submitters = {"ann"}
  Reviewers = {"ann"}
  Specialists = {"ann"}
  Admins <- MCAdmins
  Payloads <- MCExpiring
  MaxTime = 1
  MaxRev = 3
  MaxRuns = 2
  RunCap = 8
  MaxSnaps = 2
  MaxApprovals = 1
  MaxDeploys = 2
INVARIANTS
  VisibleReleaseGoverned
  EligibleIffReleasable
  ReschedulingSettles
PROPERTY StaleRunReplaced
CHECK_DEADLOCK FALSE
