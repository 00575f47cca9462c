SPECIFICATION Spec
CONSTANTS
  Criteria = {"E1", "E2", "G4", "B1"}
  Dimensions = {"E", "G", "B"}
  DimensionOf <- MCDimensionOf
  Core = {"E", "M", "G"}
  Gates = {"R1", "R2", "R7"}
  Profiles <- MCProfiles
  Tiers <- MCTiers
  None = None
  Contexts <- MCContexts
  Required = {"E1", "E2", "G4"}
  Examinations = {"inventory-audit", "source-status", "terminology", "claims"}
  CriticalExaminations = {"inventory-audit", "source-status", "claims"}
  Deterministic = {"source-status", "terminology"}
  ModelChecked = {"claims"}
  Reviewers = {"expert", "owner"}
  Specialists = {"expert"}
  Owner = "owner"
  Reviews <- MCReviews
  MaxDecisions = 3
INVARIANTS
  ReadinessIsEarned
  ReasonsExplainSnapshot
CHECK_DEADLOCK FALSE
PROPERTIES
  ReplayIsIncremental
  ImplementsReadiness
