SPECIFICATION Spec
CONSTANTS
  Assets = {"a1"}
  Briefs = {"b1", "b2"}
  Resources = {"src"}
  Principals = {"ann", "bob"}
  Evaluators = {"e1"}
  Owner <- MCOwner
  Needs <- MCNeeds
  SpecialistBriefs = {"b2"}
  Approvers = {"ann", "bob"}
  Submitters = {"ann", "bob"}
  Reviewers = {"ann", "bob"}
  Specialists = {"ann", "bob"}
  Admins <- MCAdmins
  Payloads <- MCGenerated
  MaxTime = 0
  MaxRev = 3
  MaxRuns = 2
  RunCap = 8
  MaxSnaps = 3
  MaxApprovals = 2
  MaxDeploys = 0
INVARIANTS
  TypeOK
  ReleasedInForce
  ReplayStillReleased
  CurrentRunSeesHeads
PROPERTIES
  DeadApprovalStaysDead
  ImplementsLifecycle
  ImplementsReleaseGate
CHECK_DEADLOCK FALSE
